---- MODULE Spec2Model ----
(***************************************************************************)
(* Estrela do Saber: the multi-agent orchestrator (question creation and   *)
(* answer submission) over the SQLite store, modelled as a state machine.  *)
(* Every workflow invocation runs in a slot of Procs; a stage of the       *)
(* orchestrator is one action.  Labels (answers, options) are sequences of *)
(* one-character strings so that upper() and strip() are computed.         *)
(***************************************************************************)
EXTENDS Integers, Sequences, FiniteSets, TLC

VARIABLES
    children,          \* table Child, in insertion order
    questions,         \* table Question, in insertion order (id = position)
    responses,         \* table Response, in insertion order (id = position)
    question_counter,  \* QuestionGeneratorAgent._question_counter
    procs,             \* per slot: the invocation's AgentState and position
    nInv,              \* number of operations started so far
    passed_save,       \* history: per email, the submissions that passed
                       \* the save stage
    now,               \* datetime.utcnow(), in whole days
    report             \* the reply to the last GET /relatorio

vars == <<children, questions, responses, question_counter, procs, nInv,
          passed_save, now, report>>

----------------------------------------------------------------------------
(* Bounds of the model *)

MaxInvocations == 3

\* Operations started in a run of SpecCreate, whose creations range over
\* every grade and every store outcome
MaxCreateInvocations == 2

\* Registrations started in a run of concurrent registrations
MaxRegistrations == 3

\* Rows of the Response table in the stores SpecReport starts from
MaxHistory == 5

\* Rows of the Response table in the stores SpecAccuracy starts from
MaxAnswers == 80

\* The slots invocations run in: two invocations may overlap
Procs == {1, 2}

----------------------------------------------------------------------------
(* Program constants *)

MinGrade == 1
MaxGrade == 5
InitialQuestionCounter == 100

\* ReportGeneratorAgent: timedelta(weeks=2) in days, and the accuracies from
\* which the recommendations change
RecentDays == 14
ExcellentAccuracy == 80
SatisfactoryAccuracy == 60

Grades == MinGrade..MaxGrade

----------------------------------------------------------------------------
(* Strings that the code transforms: sequences of characters *)

LowerLetters == <<"a","b","c","d","e","f","g","h","i","j","k","l","m",
                  "n","o","p","q","r","s","t","u","v","w","x","y","z">>
UpperLetters == <<"A","B","C","D","E","F","G","H","I","J","K","L","M",
                  "N","O","P","Q","R","S","T","U","V","W","X","Y","Z">>

UpperChar(c) ==
    IF \E i \in 1..Len(LowerLetters) : LowerLetters[i] = c
    THEN UpperLetters[CHOOSE i \in 1..Len(LowerLetters) : LowerLetters[i] = c]
    ELSE c

\* str.upper()
Upper(s) == [i \in 1..Len(s) |-> UpperChar(s[i])]

IsSpace(c) == c \in {" ", "\t", "\n"}

RECURSIVE LStrip(_)
LStrip(s) == IF s # <<>> /\ IsSpace(Head(s)) THEN LStrip(Tail(s)) ELSE s

RECURSIVE RStrip(_)
RStrip(s) ==
    IF s # <<>> /\ IsSpace(s[Len(s)]) THEN RStrip(SubSeq(s, 1, Len(s) - 1)) ELSE s

\* str.strip()
Strip(s) == RStrip(LStrip(s))

\* A Python value that is None
None == "<None>"

----------------------------------------------------------------------------
(* Inputs and collaborator outputs the model draws from *)

Emails == {"ana@x.com", "bia@x.com"}

\* The registration requests sent for an email: a re-registration with the
\* other request changes both the name and the grade
RegisterRequests == {[nome |-> "Ana", ano |-> 1], [nome |-> "Bia", ano |-> 4]}

\* What the question LLM may answer with: content that follows the prompt,
\* content whose label carries whitespace, and malformed content.
LLMContents ==
    { [question |-> "Q-letters",
       options |-> << <<"A">>, <<"B">>, <<"C">>, <<"D">> >>,
       answer |-> <<"C">>],
      [question |-> "Q-spaced",
       options |-> << <<"A">>, <<"B">>, <<"C">>, <<"D">> >>,
       answer |-> <<"b", " ">>],
      [question |-> "Q-malformed",
       options |-> << <<"A">>, <<"A">>, <<"B">> >>,
       answer |-> <<"E">>] }

\* The answers a caller submits
UserAnswers == { <<" ", "c">>, <<"b", " ">>, <<"C", "D">> }

\* The grades requests are sent with: one that has its own fallback
\* question and one that takes the default fallback
SampleGrades == {1, 4}

FeedbackTexts == {"Muito bem!"}
InsightTexts == {"Insights pedagogicos."}
AudioBytes == {"ID3"}

\* A speech-synthesis or feedback call that raises
Raises == "<raises>"

\* A question-LLM call that raises (API error, invalid JSON, missing key)
LLMRaises == [question |-> Raises, options |-> <<>>, answer |-> <<>>]

----------------------------------------------------------------------------
(* AgentState *)

EmptyQuestionData ==
    [id |-> 0, disponivel |-> FALSE, question |-> "", options |-> <<>>,
     answer |-> <<>>, audio_path |-> ""]

EmptyEvaluation == [correct |-> FALSE, expected |-> <<>>, selected |-> <<>>]

NoResult ==
    [status |-> "none", error |-> "", stage |-> "",
     question_data |-> EmptyQuestionData,
     correta |-> FALSE, feedback |-> "", audio |-> "", saved |-> FALSE]

NoCalls == [question_llm |-> 0, feedback_llm |-> 0, tts |-> 0]

\* Question.audio_path: Optional[str] = Field(default="Sem áudio")
SemAudio == "Sem áudio"

\* no Question object is pending in the invocation's session
NoQuestion ==
    [id |-> 0, question |-> "", options |-> <<>>, answer |-> <<>>,
     ano_ideal |-> 0, audio_path |-> SemAudio]

IdleProc ==
    [op |-> "none", pc |-> "idle", inv |-> 0,
     child_email |-> "", ano |-> 0, question_data |-> EmptyQuestionData,
     question_id |-> 0, user_response |-> <<>>,
     evaluation_result |-> EmptyEvaluation, feedback_text |-> "",
     audio_data |-> [path |-> "", base64 |-> ""], saved |-> FALSE,
     response_id |-> 0, child_name |-> "",
     raw_answer |-> <<>>, llm_failed |-> FALSE, feedback_failed |-> FALSE,
     tts_failed |-> FALSE, question_missing |-> FALSE, calls |-> NoCalls,
     existing_child |-> 0, db_question |-> NoQuestion, result |-> NoResult]

\* no collaborator of the report raised
NoneFailed == [insight |-> FALSE, notification |-> FALSE]

\* no report has been requested
NoReport == [status |-> "none", email |-> "", body |-> [none |-> TRUE],
             insight_input |-> [none |-> TRUE],
             calls |-> [response_select |-> 0, insight_llm |-> 0,
                       notification |-> 0],
             failed |-> NoneFailed]

Init ==
    /\ children = <<>>
    /\ questions = <<>>
    /\ responses = <<>>
    /\ question_counter = InitialQuestionCounter
    /\ procs = [p \in Procs |-> IdleProc]
    /\ nInv = 0
    /\ passed_save = [e \in Emails |-> 0]
    /\ now = 0
    /\ report = NoReport

----------------------------------------------------------------------------
(* Exceptions: an invocation that raises ends with result.status = "error" *)

Raise(st, stage, error) ==
    [st EXCEPT !.pc = "done",
               !.result = [NoResult EXCEPT !.status = "error",
                                           !.error = error,
                                           !.stage = stage]]

Failed(st) == st.result.status = "error"

\* Faulty variant: the next stage follows a stage that raised
Continue_after_failure(st, next) == [st EXCEPT !.pc = next]

\* _execute_with_error_handling re-raises and the caller's try re-raises:
\* a stage that raised ends the invocation, otherwise the next stage follows
Continue(st, next) == IF Failed(st) THEN st ELSE [st EXCEPT !.pc = next]

----------------------------------------------------------------------------
(* Store queries *)

ChildRows(email) ==
    {i \in 1..Len(children) : children[i].email_responsavel = email}

FirstChild(email) ==
    children[CHOOSE i \in ChildRows(email) : \A j \in ChildRows(email) : i <= j]

\* session.get(Question, id) / session.get(Response, id)
HasQuestion(id) == id \in 1..Len(questions)
HasResponse(id) == id \in 1..Len(responses)

----------------------------------------------------------------------------
(* POST /register *)

register_child(nome, ano, email) ==
    IF ChildRows(email) # {}
    THEN LET i == CHOOSE k \in ChildRows(email) : \A j \in ChildRows(email) : k <= j
         IN [children EXCEPT ![i].nome = nome, ![i].ano = ano]
    ELSE Append(children,
                [id |-> Len(children) + 1, nome |-> nome, ano |-> ano,
                 email_responsavel |-> email])

\* The two emails are interchangeable, so the first operation of a run is
\* taken to name the first of them
EmailAllowed(email) == nInv = 0 => email = "ana@x.com"

Register(nome, ano, email) ==
    /\ nInv < MaxInvocations
    /\ EmailAllowed(email)
    /\ nInv' = nInv + 1
    /\ children' = register_child(nome, ano, email)
    /\ UNCHANGED <<questions, responses, question_counter, procs, passed_save,
                   now, report>>

----------------------------------------------------------------------------
(* MultiAgentOrchestrator: resolve learner *)

\* Faulty variant: a missing learner is fabricated instead of raising
_get_child_info_fabricating(email) ==
    IF ChildRows(email) = {}
    THEN [found |-> TRUE, nome |-> "", ano |-> MinGrade]
    ELSE [found |-> TRUE, nome |-> FirstChild(email).nome,
          ano |-> FirstChild(email).ano]

\* found = FALSE stands for the ValueError of _get_child_info
_get_child_info(email) ==
    IF ChildRows(email) = {}
    THEN [found |-> FALSE, nome |-> "", ano |-> 0]
    ELSE [found |-> TRUE, nome |-> FirstChild(email).nome,
          ano |-> FirstChild(email).ano]

\* ano = 0 stands for the default None; op and inv are the slot's bookkeeping
_initialize_state(op, inv, child_email, ano) ==
    LET child_info == _get_child_info(child_email)
        st == [IdleProc EXCEPT !.op = op, !.inv = inv, !.child_email = child_email]
    IN IF ~child_info.found
       THEN Raise(st, "initialize_state", "ChildNotFound")
       ELSE [st EXCEPT !.ano = IF ano # 0 THEN ano ELSE child_info.ano,
                       !.child_name = child_info.nome]

----------------------------------------------------------------------------
(* QuestionGeneratorAgent *)

S(c) == <<c>>

fallback_questions ==
    [g \in 1..3 |->
        CASE g = 1 -> [question |-> "Qual e a primeira letra da palavra 'CASA'?",
                       options |-> <<S("C"), S("A"), S("S"), S("H")>>,
                       answer |-> S("C")]
          [] g = 2 -> [question |-> "Quantas silabas tem a palavra 'GATO'?",
                       options |-> <<S("1"), S("2"), S("3"), S("4")>>,
                       answer |-> S("2")]
          [] g = 3 -> [question |-> "Qual palavra rima com 'FLOR'?",
                       options |-> << <<"A","m","o","r">>, <<"C","a","s","a">>,
                                      <<"L","i","v","r","o">>,
                                      <<"C","a","r","r","o">> >>,
                       answer |-> <<"A","m","o","r">>]]

\* Faulty variant: fallback_questions.get(ano) without the default, so a
\* grade outside the table yields no question content
_get_fallback_question_no_default(ano, counter) ==
    IF ano \in DOMAIN fallback_questions
    THEN [id |-> counter, disponivel |-> TRUE,
          question |-> fallback_questions[ano].question,
          options |-> fallback_questions[ano].options,
          answer |-> fallback_questions[ano].answer,
          audio_path |-> ""]
    ELSE [EmptyQuestionData EXCEPT !.id = counter]

_get_fallback_question(ano, counter) ==
    LET base_question ==
            IF ano \in DOMAIN fallback_questions
            THEN fallback_questions[ano] ELSE fallback_questions[2]
    IN [id |-> counter, disponivel |-> TRUE,
        question |-> base_question.question,
        options |-> base_question.options,
        answer |-> base_question.answer,
        audio_path |-> ""]

\* llm is the content the LLM answered with, or Raises
generate_question(ano, llm, counter) ==
    IF llm = LLMRaises
    THEN _get_fallback_question(ano, counter)
    ELSE [id |-> counter, disponivel |-> TRUE,
          question |-> llm.question,
          options |-> llm.options,
          answer |-> llm.answer,
          audio_path |-> ""]

----------------------------------------------------------------------------
(* MultiAgentOrchestrator: question creation *)

\* Slots are anonymous: an invocation takes the lowest free one
FreeSlot(p) ==
    /\ procs[p].pc \in {"idle", "done"}
    /\ \A q \in Procs : q < p => procs[q].pc \notin {"idle", "done"}

StartNewQuestion(p, ano, child_email) ==
    /\ nInv < MaxInvocations
    /\ FreeSlot(p)
    /\ EmailAllowed(child_email)
    /\ nInv' = nInv + 1
    /\ LET st == _initialize_state("new_question", nInv + 1, child_email, ano)
       IN procs' = [procs EXCEPT ![p] = Continue(st, "generate_question")]
    /\ UNCHANGED <<children, questions, responses, question_counter, passed_save,
                   now, report>>

_generate_question_node(st, llm, counter) ==
    [st EXCEPT !.question_data = generate_question(st.ano, llm, counter),
               !.llm_failed = (llm = LLMRaises),
               !.calls.question_llm = @ + 1]

GenerateQuestion(p) ==
    /\ procs[p].pc = "generate_question"
    /\ \E llm \in LLMContents \cup {LLMRaises} :
          /\ procs' = [procs EXCEPT ![p] =
                Continue(_generate_question_node(procs[p], llm, question_counter),
                         "persist_question")]
          /\ question_counter' =
                IF llm = LLMRaises THEN question_counter ELSE question_counter + 1
    /\ UNCHANGED <<children, questions, responses, nInv, passed_save,
                   now, report>>

\* Faulty variant: the path is returned although the synthesis raised
_generate_question_audio_path_on_failure(question_id, tts) ==
    "audios/questao_" \o ToString(question_id) \o ".mp3"

\* tts is the audio the synthesizer returned, or Raises
_generate_question_audio(question_id, tts) ==
    IF tts = Raises THEN ""
    ELSE "audios/questao_" \o ToString(question_id) \o ".mp3"

\* the Question row that _persist_question_node commits
QuestionRow(st, question_id, audio_path) ==
    [id |-> question_id,
     question |-> st.question_data.question,
     options |-> st.question_data.options,
     answer |-> st.question_data.answer,
     ano_ideal |-> st.ano,
     audio_path |-> audio_path]

\* Faulty variant: the payload keeps the identifier taken from the counter
\* that all invocations share
_persist_question_node_counter_id(st, question_id, tts) ==
    LET audio_path == _generate_question_audio(question_id, tts)
    IN [st EXCEPT !.question_id = question_id,
                  !.question_data.audio_path = audio_path,
                  !.tts_failed = (tts = Raises),
                  !.calls.tts = @ + 1]

_persist_question_node(st, question_id, tts) ==
    LET audio_path == _generate_question_audio(question_id, tts)
    IN [st EXCEPT !.question_data.id = question_id,
                  !.question_id = question_id,
                  !.question_data.audio_path = audio_path,
                  !.tts_failed = (tts = Raises),
                  !.calls.tts = @ + 1]

\* process_new_question returns state["question_data"]
ReturnQuestion(st) ==
    IF Failed(st) THEN st ELSE
    [st EXCEPT !.pc = "done",
               !.result = [NoResult EXCEPT !.status = "ok",
                                           !.question_data = st.question_data]]

PersistQuestion(p) ==
    /\ procs[p].pc = "persist_question"
    /\ \E tts \in AudioBytes \cup {Raises} :
          LET question_id == Len(questions) + 1
              st == _persist_question_node(procs[p], question_id, tts)
          IN /\ questions' = Append(questions,
                                    QuestionRow(st, question_id,
                                                st.question_data.audio_path))
             /\ procs' = [procs EXCEPT ![p] = ReturnQuestion(st)]
    /\ UNCHANGED <<children, responses, question_counter, nInv, passed_save,
                   now, report>>

----------------------------------------------------------------------------
(* MultiAgentOrchestrator: answer submission *)

StartAnswer(p, question_id, user_answer, child_email) ==
    /\ nInv < MaxInvocations
    /\ FreeSlot(p)
    /\ EmailAllowed(child_email)
    /\ nInv' = nInv + 1
    /\ LET st == _initialize_state("answer", nInv + 1, child_email, 0)
       IN procs' = [procs EXCEPT ![p] =
                       IF Failed(st) THEN st
                       ELSE Continue([st EXCEPT !.question_id = question_id,
                                                !.raw_answer = user_answer,
                                                !.user_response =
                                                    Strip(Upper(user_answer))],
                                     "fetch_question")]
    /\ UNCHANGED <<children, questions, responses, question_counter, passed_save,
                   now, report>>

\* Faulty variant: the stored label is upper-cased when the row is read
_fetch_question_node_normalizing(st) ==
    IF HasQuestion(st.question_id)
    THEN LET question == questions[st.question_id]
         IN [st EXCEPT !.question_data =
                          [EmptyQuestionData EXCEPT !.id = question.id,
                                                    !.question = question.question,
                                                    !.options = question.options,
                                                    !.answer = Upper(question.answer)]]
    ELSE LET fallback_data == _get_fallback_question(st.ano, question_counter)
         IN [st EXCEPT !.question_missing = TRUE,
                       !.question_data =
                          [EmptyQuestionData EXCEPT !.id = st.question_id,
                                                    !.question = fallback_data.question,
                                                    !.options = fallback_data.options,
                                                    !.answer = fallback_data.answer]]

\* Faulty variant: a missing question raises instead of taking the fallback
_fetch_question_node_raising(st) ==
    IF HasQuestion(st.question_id)
    THEN LET question == questions[st.question_id]
         IN [st EXCEPT !.question_data =
                          [EmptyQuestionData EXCEPT !.id = question.id,
                                                    !.question = question.question,
                                                    !.options = question.options,
                                                    !.answer = question.answer]]
    ELSE Raise([st EXCEPT !.question_missing = TRUE],
               "fetch_question", "QuestionNotFound")

_fetch_question_node(st) ==
    IF HasQuestion(st.question_id)
    THEN LET question == questions[st.question_id]
         IN [st EXCEPT !.question_data =
                          [EmptyQuestionData EXCEPT !.id = question.id,
                                                    !.question = question.question,
                                                    !.options = question.options,
                                                    !.answer = question.answer]]
    ELSE LET fallback_data == _get_fallback_question(st.ano, question_counter)
         IN [st EXCEPT !.question_missing = TRUE,
                       !.question_data =
                          [EmptyQuestionData EXCEPT !.id = st.question_id,
                                                    !.question = fallback_data.question,
                                                    !.options = fallback_data.options,
                                                    !.answer = fallback_data.answer]]

FetchQuestion(p) ==
    /\ procs[p].pc = "fetch_question"
    /\ procs' = [procs EXCEPT ![p] =
                    Continue(_fetch_question_node(procs[p]), "evaluate_answer")]
    /\ UNCHANGED <<children, questions, responses, question_counter, nInv,
                   passed_save,
                   now, report>>

_evaluate_answer_node(st) ==
    LET question_data == st.question_data
        user_answer == st.user_response
        is_correct == user_answer = Upper(question_data.answer)
    IN [st EXCEPT !.evaluation_result =
                     [correct |-> is_correct,
                      expected |-> question_data.answer,
                      selected |-> user_answer]]

EvaluateAnswer(p) ==
    /\ procs[p].pc = "evaluate_answer"
    /\ procs' = [procs EXCEPT ![p] =
                    Continue(_evaluate_answer_node(procs[p]), "save_response")]
    /\ UNCHANGED <<children, questions, responses, question_counter, nInv,
                   passed_save,
                   now, report>>

\* Faulty variant: the placeholder is inserted with its audio path
ResponseRow_with_path(st, response_id) ==
    [id |-> response_id,
     question_id |-> st.question_id,
     child_email |-> st.child_email,
     selected |-> st.evaluation_result.selected,
     correct |-> st.evaluation_result.correct,
     feedback_text |-> "",
     audio_path |-> "audios/feedback_" \o ToString(response_id) \o ".mp3",
     audio_base64 |-> None,
     timestamp |-> now,
     creator |-> st.inv,
     writers |-> {}]

\* the Response row that _save_response_node commits; creator and writers are
\* history: the invocation that inserted the row and those that updated it
ResponseRow(st, response_id) ==
    [id |-> response_id,
     question_id |-> st.question_id,
     child_email |-> st.child_email,
     selected |-> st.evaluation_result.selected,
     correct |-> st.evaluation_result.correct,
     feedback_text |-> "",
     audio_path |-> None,
     audio_base64 |-> None,
     timestamp |-> now,
     creator |-> st.inv,
     writers |-> {}]

\* Faulty variant: the identifier is read back but the flag is left unset
_save_response_node_unflagged(st, response_id) ==
    [st EXCEPT !.response_id = response_id]

_save_response_node(st, response_id) ==
    [st EXCEPT !.saved = TRUE, !.response_id = response_id]

SaveResponse(p) ==
    /\ procs[p].pc = "save_response"
    /\ LET response_id == Len(responses) + 1
       IN /\ responses' = Append(responses, ResponseRow(procs[p], response_id))
          /\ procs' = [procs EXCEPT ![p] =
                          Continue(_save_response_node(procs[p], response_id),
                                   "generate_feedback")]
    /\ passed_save' = [passed_save EXCEPT ![procs[p].child_email] = @ + 1]
    /\ UNCHANGED <<children, questions, question_counter, nInv,
                   now, report>>

\* Faulty variant: a feedback call that raised is made a second time
_generate_feedback_node_retrying(st, llm) ==
    IF llm = Raises
    THEN Raise([st EXCEPT !.calls.feedback_llm = @ + 2,
                          !.feedback_failed = TRUE],
               "generate_feedback", "FeedbackError")
    ELSE [st EXCEPT !.calls.feedback_llm = @ + 1, !.feedback_text = llm]

\* llm is the text the feedback LLM answered with, or Raises
_generate_feedback_node(st, llm) ==
    LET called == [st EXCEPT !.calls.feedback_llm = @ + 1]
    IN IF llm = Raises
       THEN Raise([called EXCEPT !.feedback_failed = TRUE],
                  "generate_feedback", "FeedbackError")
       ELSE [called EXCEPT !.feedback_text = llm]

GenerateFeedback(p) ==
    /\ procs[p].pc = "generate_feedback"
    /\ \E llm \in FeedbackTexts \cup {Raises} :
          procs' = [procs EXCEPT ![p] =
                       Continue(_generate_feedback_node(procs[p], llm),
                                "generate_audio")]
    /\ UNCHANGED <<children, questions, responses, question_counter, nInv,
                   passed_save,
                   now, report>>

\* base64.b64encode(bytes).decode("utf-8")
B64Encode(bytes) == IF bytes = "" THEN "" ELSE "b64(" \o bytes \o ")"

\* Faulty variant: the audio file is named after the question
_generate_audio_node_by_question(st, tts, readable) ==
    LET audio_path == "audios/feedback_" \o ToString(st.question_id) \o ".mp3"
        called == [st EXCEPT !.calls.tts = @ + 1]
    IN IF tts = Raises
       THEN Raise([called EXCEPT !.tts_failed = TRUE], "generate_audio", "TTSError")
       ELSE IF ~readable
       THEN Raise([called EXCEPT !.tts_failed = TRUE], "generate_audio", "IOError")
       ELSE [called EXCEPT !.audio_data = [path |-> audio_path,
                                           base64 |-> B64Encode(tts)]]

\* tts is the audio the synthesizer returned, or Raises; readable is whether
\* the audio file could be opened and read back
_generate_audio_node(st, tts, readable) ==
    LET audio_path == "audios/feedback_" \o ToString(st.response_id) \o ".mp3"
        called == [st EXCEPT !.calls.tts = @ + 1]
    IN IF tts = Raises
       THEN Raise([called EXCEPT !.tts_failed = TRUE], "generate_audio", "TTSError")
       ELSE IF ~readable
       THEN Raise([called EXCEPT !.tts_failed = TRUE], "generate_audio", "IOError")
       ELSE [called EXCEPT !.audio_data = [path |-> audio_path,
                                           base64 |-> B64Encode(tts)]]

\* Faulty variant: a stage that raised rolls the placeholder row back
UpdateResponse_rolling_back(st) ==
    IF Failed(st) THEN SubSeq(responses, 1, st.response_id - 1)
    ELSE IF HasResponse(st.response_id)
    THEN [responses EXCEPT ![st.response_id].feedback_text = st.feedback_text,
                           ![st.response_id].audio_path = st.audio_data.path,
                           ![st.response_id].audio_base64 = st.audio_data.base64,
                           ![st.response_id].writers = @ \cup {st.inv}]
    ELSE responses

\* Faulty variant: the update leaves the encoded audio out of the row
UpdateResponse_without_payload(st) ==
    IF Failed(st) THEN responses
    ELSE IF HasResponse(st.response_id)
    THEN [responses EXCEPT ![st.response_id].feedback_text = st.feedback_text,
                           ![st.response_id].audio_path = st.audio_data.path,
                           ![st.response_id].writers = @ \cup {st.inv}]
    ELSE responses

\* Faulty variant: the row is reloaded by the question identifier
UpdateResponse_by_question_id(st) ==
    IF Failed(st) THEN responses
    ELSE IF HasResponse(st.question_id)
    THEN [responses EXCEPT ![st.question_id].feedback_text = st.feedback_text,
                           ![st.question_id].audio_path = st.audio_data.path,
                           ![st.question_id].audio_base64 = st.audio_data.base64,
                           ![st.question_id].writers = @ \cup {st.inv}]
    ELSE responses

\* Faulty variant: the feedback text is stored before the synthesis, so a
\* failed audio stage leaves it in the row
UpdateResponse_feedback_first(st) ==
    IF ~HasResponse(st.response_id) THEN responses
    ELSE IF Failed(st)
    THEN [responses EXCEPT ![st.response_id].feedback_text = st.feedback_text,
                           ![st.response_id].writers = @ \cup {st.inv}]
    ELSE [responses EXCEPT ![st.response_id].feedback_text = st.feedback_text,
                           ![st.response_id].audio_path = st.audio_data.path,
                           ![st.response_id].audio_base64 = st.audio_data.base64,
                           ![st.response_id].writers = @ \cup {st.inv}]

\* the update of the Response row at the end of _generate_audio_node, which
\* a stage that raised earlier never reaches
UpdateResponse(st) ==
    IF Failed(st) THEN responses
    ELSE IF HasResponse(st.response_id)
    THEN [responses EXCEPT ![st.response_id].feedback_text = st.feedback_text,
                           ![st.response_id].audio_path = st.audio_data.path,
                           ![st.response_id].audio_base64 = st.audio_data.base64,
                           ![st.response_id].writers = @ \cup {st.inv}]
    ELSE responses

\* process_answer returns {correta, feedback, audio, saved}
ReturnAnswer(st) ==
    IF Failed(st) THEN st ELSE
    [st EXCEPT !.pc = "done",
               !.result = [NoResult EXCEPT !.status = "ok",
                                           !.correta = st.evaluation_result.correct,
                                           !.feedback = st.feedback_text,
                                           !.audio = st.audio_data.base64,
                                           !.saved = st.saved]]

GenerateAudio(p) ==
    /\ procs[p].pc = "generate_audio"
    /\ \E tts \in AudioBytes \cup {Raises}, readable \in BOOLEAN :
          LET st == _generate_audio_node(procs[p], tts, readable)
          IN /\ responses' = UpdateResponse(st)
             /\ procs' = [procs EXCEPT ![p] = ReturnAnswer(st)]
    /\ UNCHANGED <<children, questions, question_counter, nInv, passed_save,
                   now, report>>

----------------------------------------------------------------------------

Next ==
    \/ \E r \in RegisterRequests, email \in Emails :
          Register(r.nome, r.ano, email)
    \/ \E p \in Procs, ano \in SampleGrades, email \in Emails :
          StartNewQuestion(p, ano, email)
    \/ \E p \in Procs : GenerateQuestion(p)
    \/ \E p \in Procs : PersistQuestion(p)
    \/ \E p \in Procs, question_id \in 1..(Len(questions) + 1),
          user_answer \in UserAnswers, email \in Emails :
          StartAnswer(p, question_id, user_answer, email)
    \/ \E p \in Procs : FetchQuestion(p)
    \/ \E p \in Procs : EvaluateAnswer(p)
    \/ \E p \in Procs : SaveResponse(p)
    \/ \E p \in Procs : GenerateFeedback(p)
    \/ \E p \in Procs : GenerateAudio(p)

Spec == Init /\ [][Next]_vars

----------------------------------------------------------------------------
(* Question creation for every grade, over a store whose writes may fail *)

\* Where the transaction of _persist_question_node may raise: at add/flush,
\* before the audio is synthesized, or at the commit that follows it
StoreFailures == {"flush", "commit"}

\* Faulty variant: the except branch re-raises without session.rollback()
get_db_session_no_rollback(committed, pending, raised) == pending

\* get_db_session: the rows the table holds when the scope is left, given the
\* rows committed before it, the rows the body wrote, and whether it raised
get_db_session(committed, pending, raised) ==
    IF raised THEN committed ELSE pending

\* the state fields are assigned after the commit only, so a raising
\* transaction leaves them; the synthesizer has been called by commit time
_persist_question_node_raising(st, failure, tts) ==
    LET reached == IF failure = "commit"
                   THEN [st EXCEPT !.tts_failed = (tts = Raises),
                                   !.calls.tts = @ + 1]
                   ELSE st
    IN Raise(reached, "persist_question", "PersistenceError")

PersistQuestionFails(p) ==
    /\ procs[p].pc = "persist_question"
    /\ \E failure \in StoreFailures :
          LET question_id == Len(questions) + 1
          IN IF failure = "flush"
             THEN /\ questions' = get_db_session(questions, questions, TRUE)
                  /\ procs' = [procs EXCEPT ![p] =
                        _persist_question_node_raising(procs[p], failure, Raises)]
             ELSE \E tts \in AudioBytes \cup {Raises} :
                  LET audio_path == _generate_question_audio(question_id, tts)
                      pending == Append(questions,
                                        QuestionRow(procs[p], question_id,
                                                    audio_path))
                  IN /\ questions' = get_db_session(questions, pending, TRUE)
                     /\ procs' = [procs EXCEPT ![p] =
                           _persist_question_node_raising(procs[p], failure, tts)]
    /\ UNCHANGED <<children, responses, question_counter, nInv, passed_save,
                   now, report>>

NextCreate ==
    \/ \E r \in RegisterRequests, email \in Emails :
          nInv < MaxCreateInvocations /\ Register(r.nome, r.ano, email)
    \/ \E p \in Procs, ano \in Grades, email \in Emails :
          nInv < MaxCreateInvocations /\ StartNewQuestion(p, ano, email)
    \/ \E p \in Procs : GenerateQuestion(p)
    \/ \E p \in Procs : PersistQuestion(p)
    \/ \E p \in Procs : PersistQuestionFails(p)

SpecCreate == Init /\ [][NextCreate]_vars

----------------------------------------------------------------------------
(* POST /register served by several workers over the same database: the    *)
(* select of the learner and the commit are two steps of a request, and    *)
(* the requests of different workers interleave between them               *)
(***************************************************************************)

\* select(Child).where(Child.email_responsavel == email).first(): the
\* position of the row, 0 for None
existing_child(email) ==
    IF ChildRows(email) = {} THEN 0
    ELSE CHOOSE k \in ChildRows(email) : \A j \in ChildRows(email) : k <= j

RegisterSelect(p, nome, ano, email) ==
    /\ nInv < MaxRegistrations
    /\ FreeSlot(p)
    /\ EmailAllowed(email)
    /\ nInv' = nInv + 1
    /\ procs' = [procs EXCEPT ![p] =
                    [IdleProc EXCEPT !.op = "register",
                                     !.pc = "register_commit",
                                     !.inv = nInv + 1,
                                     !.child_email = email,
                                     !.child_name = nome,
                                     !.ano = ano,
                                     !.existing_child = existing_child(email)]]
    /\ UNCHANGED <<children, questions, responses, question_counter,
                   passed_save, now, report>>

\* the branch taken on the row that the select returned: the row is updated,
\* or a new row is added and committed
register_commit(st) ==
    IF st.existing_child # 0
    THEN [children EXCEPT ![st.existing_child].nome = st.child_name,
                          ![st.existing_child].ano = st.ano]
    ELSE Append(children,
                [id |-> Len(children) + 1, nome |-> st.child_name,
                 ano |-> st.ano, email_responsavel |-> st.child_email])

RegisterCommit(p) ==
    /\ procs[p].pc = "register_commit"
    /\ children' = register_commit(procs[p])
    /\ procs' = [procs EXCEPT ![p] =
                    [@ EXCEPT !.pc = "done",
                              !.result = [NoResult EXCEPT !.status = "ok"]]]
    /\ UNCHANGED <<questions, responses, question_counter, nInv,
                   passed_save, now, report>>

NextRegister ==
    \/ \E p \in Procs, r \in RegisterRequests, email \in Emails :
          RegisterSelect(p, r.nome, r.ano, email)
    \/ \E p \in Procs : RegisterCommit(p)

SpecRegister == Init /\ [][NextRegister]_vars

----------------------------------------------------------------------------
(* _persist_question_node step by step: the INSERT that flush() sends, the *)
(* synthesis and the commit are three steps of one transaction, and other  *)
(* invocations run between them.  SQLite admits one writing transaction at *)
(* a time: a writer that finds the database locked waits.                  *)

\* some invocation holds the write lock: its INSERT is flushed, not committed
WriteLocked == \E q \in Procs : procs[q].db_question.id # 0

\* Faulty variant: the flushed row is committed at once, before its audio
session_flush_committing(committed, db_question) == Append(committed, db_question)

\* session.flush(): the rows other sessions read after the INSERT was sent
\* inside the open transaction
session_flush(committed, db_question) == committed

\* session.commit(): the rows other sessions read once the row is committed
session_commit(committed, db_question) == Append(committed, db_question)

\* Question(question=..., options=..., answer=..., ano_ideal=...), add and
\* flush: the identifier is the store's, the audio path is the default
PersistFlush(p) ==
    /\ procs[p].pc = "persist_question"
    /\ ~WriteLocked
    /\ LET question_id == Len(questions) + 1
           db_question == QuestionRow(procs[p], question_id, SemAudio)
       IN /\ questions' = session_flush(questions, db_question)
          /\ procs' = [procs EXCEPT ![p].db_question = db_question,
                                    ![p].pc = "persist_audio"]
    /\ UNCHANGED <<children, responses, question_counter, nInv, passed_save,
                   now, report>>

\* audio_path = self._generate_question_audio(text, question_id);
\* db_question.audio_path = audio_path
PersistAudio(p) ==
    /\ procs[p].pc = "persist_audio"
    /\ \E tts \in AudioBytes \cup {Raises} :
          LET question_id == procs[p].db_question.id
              audio_path == _generate_question_audio(question_id, tts)
          IN procs' = [procs EXCEPT ![p].db_question.audio_path = audio_path,
                                    ![p].tts_failed = (tts = Raises),
                                    ![p].calls.tts = @ + 1,
                                    ![p].pc = "persist_commit"]
    /\ UNCHANGED <<children, questions, responses, question_counter, nInv,
                   passed_save, now, report>>

\* session.commit(), then the state takes the identifier and the audio path
PersistCommit(p) ==
    /\ procs[p].pc = "persist_commit"
    /\ LET db_question == procs[p].db_question
           st == [procs[p] EXCEPT !.question_data.id = db_question.id,
                                  !.question_id = db_question.id,
                                  !.question_data.audio_path =
                                      db_question.audio_path,
                                  !.db_question = NoQuestion]
       IN /\ questions' = session_commit(questions, db_question)
          /\ procs' = [procs EXCEPT ![p] = ReturnQuestion(st)]
    /\ UNCHANGED <<children, responses, question_counter, nInv, passed_save,
                   now, report>>

\* the submissions that run next to a creation carry one answer
PersistAnswers == { <<" ", "c">> }

NextPersist ==
    \/ \E r \in RegisterRequests, email \in Emails :
          Register(r.nome, r.ano, email)
    \/ \E p \in Procs, ano \in SampleGrades, email \in Emails :
          StartNewQuestion(p, ano, email)
    \/ \E p \in Procs : GenerateQuestion(p)
    \/ \E p \in Procs : PersistFlush(p)
    \/ \E p \in Procs : PersistAudio(p)
    \/ \E p \in Procs : PersistCommit(p)
    \/ \E p \in Procs, question_id \in 1..(Len(questions) + 1),
          user_answer \in PersistAnswers, email \in Emails :
          StartAnswer(p, question_id, user_answer, email)
    \/ \E p \in Procs : FetchQuestion(p)
    \/ \E p \in Procs : EvaluateAnswer(p)
    \/ \E p \in Procs : ~WriteLocked /\ SaveResponse(p)
    \/ \E p \in Procs : GenerateFeedback(p)
    \/ \E p \in Procs : ~WriteLocked /\ GenerateAudio(p)

SpecPersist == Init /\ [][NextPersist]_vars

----------------------------------------------------------------------------
(* The workflows from a store that already holds a learner and a question, *)
(* so that a run holds two submissions and an operation between them       *)

\* the state after POST /register {nome: "Ana", ano: 1, "ana@x.com"} and a
\* POST /nova_questao for grade 1 that the LLM and the synthesizer served
InitRegistered ==
    /\ children = <<[id |-> 1, nome |-> "Ana", ano |-> 1,
                     email_responsavel |-> "ana@x.com"]>>
    /\ questions = <<[id |-> 1, question |-> "Q-spaced",
                      options |-> << <<"A">>, <<"B">>, <<"C">>, <<"D">> >>,
                      answer |-> <<"b", " ">>, ano_ideal |-> 1,
                      audio_path |-> "audios/questao_1.mp3"]>>
    /\ responses = <<>>
    /\ question_counter = InitialQuestionCounter + 1
    /\ procs = [p \in Procs |-> IdleProc]
    /\ nInv = 0
    /\ passed_save = [e \in Emails |-> 0]
    /\ now = 0
    /\ report = NoReport

SpecRegistered == InitRegistered /\ [][Next]_vars

----------------------------------------------------------------------------
(* ReportGeneratorAgent.  Percentages are floats with one decimal in the   *)
(* code; here they are the integer number of tenths (80.0 is 800).         *)

\* A positive double is [m, exp]: its 53-bit significand M, 2^52 <= M < 2^53,
\* as four limbs M = m[1] * 2^39 + m[2] * 2^26 + m[3] * 2^13 + m[4] (m[1] of
\* 14 bits, the others of 13), the value being M * 2^(exp - 53)
Limb == 2^13

\* the bits of r / d behind the binary point, up to the first 1: z zero bits
\* are skipped and r is the remainder they leave (r / d is then in [1/2, 1)),
\* for 0 < r < d
Normalize(r, d) ==
    LET z == CHOOSE i \in 0..16 : 2^(i + 1) * r >= d /\ 2^i * r < d
    IN [z |-> z, r |-> 2^z * r]

\* the limbs with their carries taken over; m[1] keeps what remains
Carry(m) ==
    LET c4 == m[4] \div Limb
        c3 == (m[3] + c4) \div Limb
        c2 == (m[2] + c3) \div Limb
    IN <<m[1] + c2, (m[2] + c3) % Limb, (m[3] + c4) % Limb, m[4] % Limb>>

\* round to nearest, ties to even: up says that the dropped part is above
\* one half, tie that it is one half
RoundToEven(m, exp, up, tie) ==
    IF up \/ (tie /\ m[4] % 2 = 1)
    THEN LET inc == Carry(<<m[1], m[2], m[3], m[4] + 1>>)
         IN IF inc[1] = 2 * Limb
            THEN [m |-> <<Limb, 0, 0, 0>>, exp |-> exp + 1]
            ELSE [m |-> inc, exp |-> exp]
    ELSE [m |-> m, exp |-> exp]

\* the double n / d, for integers 0 < n <= d < 2^17
FloatDiv(n, d) ==
    IF n = d THEN [m |-> <<Limb, 0, 0, 0>>, exp |-> 1]
    ELSE LET norm == Normalize(n, d)
             a1 == norm.r * 2 * Limb
             a2 == (a1 % d) * Limb
             a3 == (a2 % d) * Limb
             a4 == (a3 % d) * Limb
             rest == a4 % d
         IN RoundToEven(<<a1 \div d, a2 \div d, a3 \div d, a4 \div d>>,
                        -norm.z, 2 * rest > d, 2 * rest = d)

\* the exact product M * k, for 0 < k < 2^17, m[1] holding the bits from 2^39
MulLimbs(m, k) == Carry(<<m[1] * k, m[2] * k, m[3] * k, m[4] * k>>)

\* the double x * k: the product is shifted right by the s bits it has
\* beyond 53 and rounded by the bits that are dropped
FloatMul(x, k) ==
    LET p == MulLimbs(x.m, k)
        s == CHOOSE i \in 0..13 : 2^i * Limb <= p[1] /\ p[1] < 2^i * 2 * Limb
        low == 2^s
        high == 2^(13 - s)
        dropped == p[4] % low
        shifted == <<p[1] \div low,
                     p[2] \div low + (p[1] % low) * high,
                     p[3] \div low + (p[2] % low) * high,
                     p[4] \div low + (p[3] % low) * high>>
    IN RoundToEven(shifted, x.exp + s,
                   2 * dropped > low, s > 0 /\ 2 * dropped = low)

\* round(x, 1) in tenths, for a double x with 2^-5 <= x < 2^13: the decimal
\* with one digit that is nearest to the exact value of x, a tie to the even
\* digit
PyRound1(x) ==
    LET p == MulLimbs(x.m, 10)
        t == 14 - x.exp
        whole == p[1] \div 2^t
        fraction == p[1] % 2^t
        lower == p[2] + p[3] + p[4]
        above == 2 * fraction > 2^t \/ (2 * fraction = 2^t /\ lower > 0)
        tie == 2 * fraction = 2^t /\ lower = 0
    IN IF above \/ (tie /\ whole % 2 = 1) THEN whole + 1 ELSE whole

\* the quotients n / d, the products (n / d) * 100 and the roundings
\* round((n / d) * 100, 1) in tenths, each computed once for every pair
\* 0 < n <= d the histories of the model give
FloatDivTable ==
    [d \in 1..MaxAnswers |-> [n \in 1..d |-> FloatDiv(n, d)]]

FloatMulTable ==
    [d \in 1..MaxAnswers |-> [n \in 1..d |-> FloatMul(FloatDivTable[d][n], 100)]]

Round1Table ==
    [d \in 1..MaxAnswers |-> [n \in 1..d |-> PyRound1(FloatMulTable[d][n])]]

\* round((n / d) * 100, 1) in tenths, for 0 <= n <= d: 0 / d is 0.0
Round1(n, d) == IF n = 0 THEN 0 ELSE Round1Table[d][n]

\* f"{x}" of a float with one decimal
FormatTenths(x) == ToString(x \div 10) \o "." \o ToString(x % 10)

DayNames == <<"Monday", "Tuesday", "Wednesday", "Thursday", "Friday",
              "Saturday", "Sunday">>

\* timestamp.strftime("%A"), day 0 being a Monday
strftime(timestamp) == DayNames[(timestamp % 7) + 1]

\* Faulty variant: the select keeps the rows whose question is stored
ResponsesOf_joined(child_email) ==
    {i \in 1..Len(responses) : /\ responses[i].child_email = child_email
                                /\ HasQuestion(responses[i].question_id)}

\* select(Response).where(Response.child_email == child_email)
ResponsesOf(child_email) ==
    {i \in 1..Len(responses) : responses[i].child_email = child_email}

\* sum(1 for r in rows if r.correct)
CorrectOf(rows) == Cardinality({i \in rows : responses[i].correct})

\* The three recommendation lists of _generate_recommendations
ExcellentTier ==
    <<"Excelente desempenho! Continue estimulando com atividades diversificadas.",
      "Considere introduzir desafios um pouco mais avancados.",
      "Elogie o progresso e mantenha a motivacao alta.">>

SatisfactoryTier ==
    <<"Desempenho satisfatorio. Continue praticando regularmente.",
      "Foque em reforcar conceitos com mais dificuldade.",
      "Considere sessoes de estudo mais frequentes e curtas.">>

NeedsAttentionTier ==
    <<"Recomenda-se atencao especial ao desenvolvimento da alfabetizacao.",
      "Considere atividades ludicas complementares em casa.",
      "Pode ser util conversar com o professor para alinhamento pedagogico.">>

\* Faulty variant: the tiers start above 80 and above 60
_generate_recommendations_exclusive(accuracy) ==
    IF accuracy > 10 * ExcellentAccuracy
    THEN ExcellentTier
    ELSE IF accuracy > 10 * SatisfactoryAccuracy
    THEN SatisfactoryTier
    ELSE NeedsAttentionTier

_generate_recommendations(accuracy) ==
    IF accuracy >= 10 * ExcellentAccuracy
    THEN ExcellentTier
    ELSE IF accuracy >= 10 * SatisfactoryAccuracy
    THEN SatisfactoryTier
    ELSE NeedsAttentionTier

\* Faulty variant: the fallback text quotes the recent accuracy
_generate_pedagogical_insights_recent(performance_data, llm) ==
    IF llm = Raises
    THEN "Analise pedagogica: " \o performance_data.child_name \o " demonstra "
         \o FormatTenths(performance_data.recent_accuracy)
         \o "% de acerto nas atividades, indicando desenvolvimento adequado para o "
         \o ToString(performance_data.grade) \o "o ano."
    ELSE llm

\* llm is the text the insight LLM answered with, or Raises
_generate_pedagogical_insights(performance_data, llm) ==
    IF llm = Raises
    THEN "Analise pedagogica: " \o performance_data.child_name \o " demonstra "
         \o FormatTenths(performance_data.accuracy)
         \o "% de acerto nas atividades, indicando desenvolvimento adequado para o "
         \o ToString(performance_data.grade) \o "o ano."
    ELSE llm

\* Faulty variant: the boundary instant is left out of the recent responses
IsRecent_exclusive(timestamp, two_weeks_ago) == timestamp > two_weeks_ago

\* r.timestamp >= two_weeks_ago
IsRecent(timestamp, two_weeks_ago) == timestamp >= two_weeks_ago

\* Faulty variant: the report without responses carries an accuracy
MinimalReport_with_accuracy(child) ==
    [child_name |-> child.nome,
     child_grade |-> child.ano,
     total_responses |-> 0,
     accuracy_percentage |-> 0,
     message |-> "Ainda nao ha atividades realizadas para gerar relatorio."]

\* the dict that generate_report returns for a learner without responses
MinimalReport(child) ==
    [child_name |-> child.nome,
     child_grade |-> child.ano,
     total_responses |-> 0,
     message |-> "Ainda nao ha atividades realizadas para gerar relatorio."]

\* Faulty variant: every response is also counted under Sunday
daily_performance_with_sunday(rows) ==
    [day \in {strftime(responses[i].timestamp) : i \in rows} \cup {"Sunday"} |->
        LET of_day == {i \in rows : day = "Sunday"
                                     \/ strftime(responses[i].timestamp) = day}
        IN [total |-> Cardinality(of_day), correct |-> CorrectOf(of_day)]]

\* daily_performance after the loop over the responses: a defaultdict, so it
\* has an entry for the weekdays of the rows and for no other weekday
daily_performance(rows) ==
    [day \in {strftime(responses[i].timestamp) : i \in rows} |->
        LET of_day == {i \in rows : strftime(responses[i].timestamp) = day}
        IN [total |-> Cardinality(of_day), correct |-> CorrectOf(of_day)]]

\* Faulty variant: equal accuracies count as an improvement
performance_trend_nonstrict(recent_accuracy, accuracy_percentage) ==
    IF recent_accuracy >= accuracy_percentage THEN "improvement"
    ELSE "needs_attention"

\* "improvement" if recent_accuracy > accuracy_percentage else "stable" if
\* recent_accuracy == accuracy_percentage else "needs_attention"
performance_trend(recent_accuracy, accuracy_percentage) ==
    IF recent_accuracy > accuracy_percentage THEN "improvement"
    ELSE IF recent_accuracy = accuracy_percentage THEN "stable"
    ELSE "needs_attention"

\* recent_accuracy - (accuracy_percentage if len(older_responses) > 0 else
\* recent_accuracy), older being len(older_responses)
improvement_trend(recent_accuracy, accuracy_percentage, older) ==
    recent_accuracy - (IF older > 0 THEN accuracy_percentage
                       ELSE recent_accuracy)

\* llm is the outcome of the insight LLM and notified whether
\* _simulate_email_send returned; raised is an exception leaving the method,
\* calls counts the select of the responses and the collaborator calls
\* made, performance_data is the dict handed to the insight and
\* recommendation helpers
generate_report(child_email, llm, notified) ==
    IF ChildRows(child_email) = {}
    THEN [raised |-> FALSE, body |-> [error |-> "Crianca nao encontrada"],
          performance_data |-> [none |-> TRUE],
          calls |-> [response_select |-> 0, insight_llm |-> 0,
                    notification |-> 0],
          failed |-> NoneFailed]
    ELSE
    LET child == FirstChild(child_email)
        rows == ResponsesOf(child_email)
    IN IF rows = {}
       THEN [raised |-> FALSE, body |-> MinimalReport(child),
             performance_data |-> [none |-> TRUE],
             calls |-> [response_select |-> 1, insight_llm |-> 0,
                       notification |-> 0],
             failed |-> NoneFailed]
       ELSE
       LET total_responses == Cardinality(rows)
           correct_responses == CorrectOf(rows)
           accuracy_percentage == Round1(correct_responses, total_responses)
           two_weeks_ago == now - RecentDays
           recent_responses ==
               {i \in rows : IsRecent(responses[i].timestamp, two_weeks_ago)}
           older_responses ==
               {i \in rows : responses[i].timestamp < two_weeks_ago}
           recent_accuracy ==
               IF recent_responses = {} THEN 0
               ELSE Round1(CorrectOf(recent_responses),
                           Cardinality(recent_responses))
           daily == daily_performance(rows)
           performance_data ==
               [child_name |-> child.nome,
                grade |-> child.ano,
                total_activities |-> total_responses,
                correct_answers |-> correct_responses,
                accuracy |-> accuracy_percentage,
                recent_accuracy |-> recent_accuracy,
                improvement_trend |->
                    improvement_trend(recent_accuracy, accuracy_percentage,
                                      Cardinality(older_responses))]
           pedagogical_insights ==
               _generate_pedagogical_insights(performance_data, llm)
           body ==
               [generated_at |-> now,
                child_info |->
                    [name |-> child.nome,
                     grade |-> ToString(child.ano) \o "o ano",
                     email_responsavel |-> child_email],
                performance_summary |->
                    [total_activities |-> total_responses,
                     correct_answers |-> correct_responses,
                     incorrect_answers |-> total_responses - correct_responses,
                     accuracy_percentage |-> accuracy_percentage,
                     recent_accuracy |-> recent_accuracy],
                temporal_analysis |->
                    [total_recent_activities |-> Cardinality(recent_responses),
                     total_older_activities |-> Cardinality(older_responses),
                     performance_trend |->
                         performance_trend(recent_accuracy,
                                           accuracy_percentage)],
                daily_patterns |->
                    [day \in DOMAIN daily |->
                        [total |-> daily[day].total,
                         accuracy |->
                             IF daily[day].total > 0
                             THEN Round1(daily[day].correct, daily[day].total)
                             ELSE 0]],
                pedagogical_insights |-> pedagogical_insights,
                recommendations |->
                    _generate_recommendations(performance_data.accuracy)]
       IN [raised |-> ~notified, body |-> body,
           performance_data |-> performance_data,
           calls |-> [response_select |-> 1, insight_llm |-> 1,
                     notification |-> 1],
           failed |-> [insight |-> (llm = Raises), notification |-> ~notified]]

\* Faulty variant: the error dict is returned as a report
ReportReply_error_as_report(email, result) ==
    IF result.raised
    THEN [status |-> "500", email |-> email, calls |-> result.calls,
          failed |-> result.failed,
          insight_input |-> result.performance_data,
          body |-> [detail |-> "Erro interno"]]
    ELSE [status |-> "200", email |-> email, calls |-> result.calls,
          failed |-> result.failed,
          insight_input |-> result.performance_data,
          body |-> result.body]

\* The reply of GET /relatorio/{email} to what generate_report gave: 404 for
\* the error dict, 500 for an exception, else the report with status 200
ReportReply(email, result) ==
    IF result.raised
    THEN [status |-> "500", email |-> email, calls |-> result.calls,
          failed |-> result.failed,
          insight_input |-> result.performance_data,
          body |-> [detail |-> "Erro interno"]]
    ELSE IF "error" \in DOMAIN result.body
    THEN [status |-> "404", email |-> email, calls |-> result.calls,
          failed |-> result.failed,
          insight_input |-> result.performance_data,
          body |-> [detail |-> result.body.error]]
    ELSE [status |-> "200", email |-> email, calls |-> result.calls,
          failed |-> result.failed,
          insight_input |-> result.performance_data,
          body |-> result.body]

\* GET /relatorio/{email}
get_report(email, llm, notified) ==
    ReportReply(email, generate_report(email, llm, notified))

\* Faulty variant: the session of the report commits a change of the learner
GetReport_committing(email) ==
    /\ nInv < MaxInvocations
    /\ nInv' = nInv + 1
    /\ \E llm \in InsightTexts \cup {Raises}, notified \in BOOLEAN :
          report' = get_report(email, llm, notified)
    /\ children' = [i \in 1..Len(children) |->
                       IF children[i].email_responsavel = email
                       THEN [children[i] EXCEPT !.nome = "reported"]
                       ELSE children[i]]
    /\ UNCHANGED <<questions, responses, question_counter, procs,
                   passed_save, now>>

GetReport(email) ==
    /\ nInv < MaxInvocations
    /\ nInv' = nInv + 1
    /\ \E llm \in InsightTexts \cup {Raises}, notified \in BOOLEAN :
          report' = get_report(email, llm, notified)
    /\ UNCHANGED <<children, questions, responses, question_counter, procs,
                   passed_save, now>>

\* The workflows of Spec together with the report
NextWithReport ==
    \/ Next
    \/ \E email \in Emails : GetReport(email)

SpecWithReport == Init /\ [][NextWithReport]_vars

----------------------------------------------------------------------------
(* The report as a function of the store: a run starts from a store that   *)
(* holds two learners and a history of submissions, and requests a report  *)

\* Ages of a submission in days: just made, made exactly two weeks before
\* the report, and made the day before that
AgeSamples == {0, RecentDays, RecentDays + 1}

ReportDay == RecentDays + 1

\* The emails a report is requested for: the two learners' and an unknown one
ReportEmails == Emails \cup {"zoe@x.com"}

\* the row a narrated submission of the given age left in the table
HistoryRow(id, child_email, correct, age) ==
    [id |-> id,
     question_id |-> id,
     child_email |-> child_email,
     selected |-> <<"C">>,
     correct |-> correct,
     feedback_text |-> "Muito bem!",
     audio_path |-> "audios/feedback_" \o ToString(id) \o ".mp3",
     audio_base64 |-> B64Encode("ID3"),
     timestamp |-> ReportDay - age,
     creator |-> id,
     writers |-> {id}]

\* the report counts the rows without regard to their order, so the rows of
\* one day are taken in one order: by learner, wrong answers first
RowRank(child_email, correct) ==
    (IF child_email = "ana@x.com" THEN 0 ELSE 2) + (IF correct THEN 1 ELSE 0)

\* rows are inserted in the order of their timestamps; one operation of the
\* run is left, the report
InitReport ==
    /\ children = <<[id |-> 1, nome |-> "Ana", ano |-> 1,
                     email_responsavel |-> "ana@x.com"],
                    [id |-> 2, nome |-> "Bia", ano |-> 4,
                     email_responsavel |-> "bia@x.com"]>>
    /\ questions = <<>>
    /\ \E n \in 0..MaxHistory :
         \E email \in [1..n -> Emails], correct \in [1..n -> BOOLEAN],
            age \in [1..n -> AgeSamples] :
            /\ \A i, j \in 1..n : i < j => age[i] >= age[j]
            /\ \A i, j \in 1..n :
                  (i < j /\ age[i] = age[j])
                      => RowRank(email[i], correct[i])
                             <= RowRank(email[j], correct[j])
            /\ responses =
                  [i \in 1..n |-> HistoryRow(i, email[i], correct[i], age[i])]
    /\ question_counter = InitialQuestionCounter
    /\ procs = [p \in Procs |-> IdleProc]
    /\ nInv = MaxInvocations - 1
    /\ passed_save = [e \in Emails |-> Cardinality(ResponsesOf(e))]
    /\ now = ReportDay
    /\ report = NoReport

NextReport == \E email \in ReportEmails : GetReport(email)

SpecReport == InitReport /\ [][NextReport]_vars

----------------------------------------------------------------------------
(* The accuracy of the report as a function of the counts: a run starts    *)
(* from a store in which one learner has total responses, correct of them  *)
(* correct, and requests the learner's report                              *)

InitAccuracy ==
    /\ children = <<[id |-> 1, nome |-> "Ana", ano |-> 1,
                     email_responsavel |-> "ana@x.com"]>>
    /\ questions = <<>>
    /\ \E total \in 1..MaxAnswers : \E correct \in 0..total :
          responses = [i \in 1..total |->
                          HistoryRow(i, "ana@x.com", i <= correct, 0)]
    /\ question_counter = InitialQuestionCounter
    /\ procs = [p \in Procs |-> IdleProc]
    /\ nInv = MaxInvocations - 1
    /\ passed_save = [e \in Emails |-> Cardinality(ResponsesOf(e))]
    /\ now = ReportDay
    /\ report = NoReport

NextAccuracy == GetReport("ana@x.com")

SpecAccuracy == InitAccuracy /\ [][NextAccuracy]_vars

----------------------------------------------------------------------------
(* Submissions and the report over a store that holds one learner and one  *)
(* question: a submission names the stored question or an identifier that  *)
(* no row has                                                              *)

NextSubmissions ==
    \/ \E p \in Procs, question_id \in 1..(Len(questions) + 1),
          user_answer \in PersistAnswers, email \in Emails :
          StartAnswer(p, question_id, user_answer, email)
    \/ \E p \in Procs : FetchQuestion(p)
    \/ \E p \in Procs : EvaluateAnswer(p)
    \/ \E p \in Procs : SaveResponse(p)
    \/ \E p \in Procs : GenerateFeedback(p)
    \/ \E p \in Procs : GenerateAudio(p)
    \/ \E email \in Emails : GetReport(email)

SpecSubmissions == InitRegistered /\ [][NextSubmissions]_vars

----------------------------------------------------------------------------
(* POST /responder, as a function of the store: the request model, the      *)
(* learner check and the stages of process_answer up to the evaluation,     *)
(* which fixes the field correta of the reply                               *)

\* AnswerRequest: id >= 1 and a resposta of exactly one character
AnswerRequest(id, resposta) ==
    /\ id >= 1
    /\ Len(resposta) >= 1
    /\ Len(resposta) <= 1

\* status is the HTTP status of the reply; the feedback and audio stages are
\* taken to succeed
answer_question(id, resposta, email_responsavel) ==
    IF ~AnswerRequest(id, resposta)
    THEN [status |-> "422", correta |-> FALSE]
    ELSE IF ChildRows(email_responsavel) = {}
    THEN [status |-> "404", correta |-> FALSE]
    ELSE LET state == _initialize_state("answer", 0, email_responsavel, 0)
             submitted == [state EXCEPT !.question_id = id,
                                        !.raw_answer = resposta,
                                        !.user_response = Strip(Upper(resposta))]
             evaluated == _evaluate_answer_node(_fetch_question_node(submitted))
         IN [status |-> "200", correta |-> evaluated.evaluation_result.correct]

\* mock_game: the label submitted as the wrong answer to a question
wrong_answer(answer) == IF answer # <<"B">> THEN <<"B">> ELSE <<"C">>

----------------------------------------------------------------------------
(* Properties *)

NewQuestionProcs == {p \in Procs : procs[p].op = "new_question"}
AnswerProcs == {p \in Procs : procs[p].op = "answer"}

ReturnedOk(st) == st.pc = "done" /\ st.result.status = "ok"

\* the evaluation stage of a submission has run
Evaluated(st) == st.op = "answer" /\ (st.pc = "save_response" \/ st.saved)

EqualModuloCaseAndSpace(a, b) == Strip(Upper(a)) = Strip(Upper(b))

Range(seq) == {seq[i] : i \in 1..Len(seq)}

\* four distinct options, one of which is the correct label
WellFormed(q) ==
    /\ Len(q.options) = 4
    /\ Cardinality(Range(q.options)) = 4
    /\ q.answer \in Range(q.options)

SameContent(q, r) ==
    /\ q.question = r.question
    /\ q.options = r.options
    /\ q.answer = r.answer

\* C1: once a submission is evaluated, correct is TRUE exactly when the
\* submitted answer equals the question's correct label modulo case and
\* surrounding whitespace, and expected is the label unchanged.
C1_EvaluationModuloCaseAndSpace ==
    \A p \in Procs :
        Evaluated(procs[p]) =>
            /\ procs[p].evaluation_result.correct =
                  EqualModuloCaseAndSpace(procs[p].raw_answer,
                                          procs[p].question_data.answer)
            /\ procs[p].evaluation_result.expected = procs[p].question_data.answer

\* C2: a question creation whose question LLM raised never fails; it returns
\* the well-formed fallback question of its grade and the Question row with
\* the returned identifier holds that question.  The fallback question of
\* every grade is well-formed.
C2_GeneratorFailureFallsBack ==
    /\ \A g \in Grades : WellFormed(generate_question(g, LLMRaises, 0))
    /\ \A p \in NewQuestionProcs :
        procs[p].llm_failed =>
            /\ ~Failed(procs[p])
            /\ procs[p].pc = "done" =>
                  LET q == procs[p].result.question_data
                  IN /\ procs[p].result.status = "ok"
                     /\ WellFormed(q)
                     /\ q.question # ""
                     /\ SameContent(q, _get_fallback_question(procs[p].ano, 0))
                     /\ HasQuestion(q.id)
                     /\ SameContent(q, questions[q.id])

C2_Witness ==
    \E p \in NewQuestionProcs : procs[p].llm_failed /\ ReturnedOk(procs[p])

\* C3: every question that question creation returns, and the Question row
\* with the returned identifier, has four distinct options and a correct
\* label among them.
C3_ReturnedQuestionWellFormed ==
    \A p \in NewQuestionProcs :
        ReturnedOk(procs[p]) =>
            LET q == procs[p].result.question_data
            IN /\ WellFormed(q)
               /\ HasQuestion(q.id)
               /\ WellFormed(questions[q.id])

\* C4: a submission whose speech synthesis (or the read-back of the audio
\* file) raised never fails: it returns a result with empty audio.
C4_NarrationFailureNeverFailsSubmission ==
    \A p \in AnswerProcs :
        procs[p].tts_failed =>
            /\ ~Failed(procs[p])
            /\ procs[p].pc = "done" =>
                  procs[p].result.status = "ok" /\ procs[p].result.audio = ""

\* C5: a submission whose feedback LLM raised never ends as a failure.
C5_FeedbackFailureAbsorbed ==
    \A p \in AnswerProcs : procs[p].feedback_failed => ~Failed(procs[p])

\* the placeholder row of the submission in st is in the store as inserted
PlaceholderCommitted(st) ==
    /\ HasResponse(st.response_id)
    /\ responses[st.response_id] = ResponseRow(st, st.response_id)

\* C6: while the feedback and audio stages of a submission are pending its
\* placeholder row is committed, and after a failure of one of them the row
\* is still in the store as it was inserted.
C6_PlaceholderSurvivesLateFailure ==
    \A p \in AnswerProcs :
        /\ procs[p].pc \in {"generate_feedback", "generate_audio"} =>
              PlaceholderCommitted(procs[p])
        /\ (Failed(procs[p]) /\ procs[p].saved) => PlaceholderCommitted(procs[p])

C6_Witness ==
    \E p \in AnswerProcs :
        /\ Failed(procs[p]) /\ procs[p].saved
        /\ procs[p].tts_failed
        /\ procs[p].feedback_text # ""

RowsOf(email) == {i \in 1..Len(responses) : responses[i].child_email = email}
CreatedBy(inv) == {i \in 1..Len(responses) : responses[i].creator = inv}

\* C7: a submission that passed the save stage has inserted exactly one row
\* and any other none, so a learner's rows count the submissions that passed
\* the save stage; the feedback and audio fields of a row are written only by
\* the invocation that inserted it.
C7_OneRowPerSubmission ==
    /\ \A e \in Emails : Cardinality(RowsOf(e)) = passed_save[e]
    /\ \A i \in 1..Len(responses) :
          /\ CreatedBy(responses[i].creator) = {i}
          /\ responses[i].writers \subseteq {responses[i].creator}
          /\ responses[i].writers = {} =>
                /\ responses[i].feedback_text = ""
                /\ responses[i].audio_path = None
                /\ responses[i].audio_base64 = None
    /\ \A p \in Procs :
          CreatedBy(procs[p].inv) =
              IF procs[p].saved THEN {procs[p].response_id} ELSE {}

C7_Witness ==
    /\ \E p, q \in AnswerProcs :
          /\ p # q
          /\ procs[p].saved /\ procs[q].saved
          /\ procs[p].child_email = procs[q].child_email
          /\ ReturnedOk(procs[q])
    /\ Len(responses) = 2

CollaboratorErrors == {"FeedbackError", "TTSError", "IOError"}

\* C8: a submission for a learner that exists whose question identifier is
\* absent from the store is evaluated against the fallback question of the
\* learner's grade; it fails only when a collaborator raised, and otherwise
\* has run every stage when it returns.
C8_MissingQuestionStillAnswers ==
    \A p \in AnswerProcs :
        procs[p].question_missing =>
            LET st == procs[p]
                fallback == _get_fallback_question(st.ano, 0)
            IN /\ Failed(st) => st.result.error \in CollaboratorErrors
               /\ Evaluated(st) =>
                     /\ st.evaluation_result.expected = fallback.answer
                     /\ st.evaluation_result.correct =
                           (st.user_response = Upper(fallback.answer))
               /\ (st.pc = "done" /\ ~st.feedback_failed /\ ~st.tts_failed) =>
                     /\ st.result.status = "ok"
                     /\ st.result.saved
                     /\ st.result.correta = st.evaluation_result.correct
                     /\ st.calls.feedback_llm = 1 /\ st.calls.tts = 1
                     /\ HasResponse(st.response_id)
                     /\ responses[st.response_id].question_id = st.question_id
                     /\ responses[st.response_id].feedback_text = st.result.feedback

C8_Witness ==
    \E p \in AnswerProcs :
        /\ procs[p].question_missing
        /\ ReturnedOk(procs[p])
        /\ procs[p].result.correta

\* the invocation in slot p started in this step
Started(p) == procs'[p].inv # procs[p].inv

\* C9: an invocation started for an email without Child row ends at once
\* with the not-found error of the resolve stage, having called no
\* collaborator, and the step leaves the store unchanged; an invocation for
\* an email with a Child row does not end that way.
C9_MissingLearnerFails ==
    [][\A p \in Procs :
          Started(p) =>
             /\ (ChildRows(procs'[p].child_email) = {}) <=>
                   (/\ Failed(procs'[p])
                    /\ procs'[p].result.error = "ChildNotFound"
                    /\ procs'[p].result.stage = "initialize_state")
             /\ Failed(procs'[p]) =>
                   /\ procs'[p].calls = NoCalls
                   /\ children' = children
                   /\ questions' = questions
                   /\ responses' = responses
                   /\ question_counter' = question_counter]_vars

C9_Witness ==
    /\ children # <<>>
    /\ \E p \in AnswerProcs :
          /\ procs[p].result.error = "ChildNotFound"
          /\ ChildRows(procs[p].child_email) = {}

\* C10: a question creation whose speech synthesis raised returns the
\* question with an empty audio reference, and the Question row with the
\* returned identifier is committed with an empty audio reference.
C10_QuestionAudioFailure ==
    \A p \in NewQuestionProcs :
        procs[p].tts_failed =>
            /\ ~Failed(procs[p])
            /\ procs[p].pc = "done" =>
                  LET q == procs[p].result.question_data
                  IN /\ procs[p].result.status = "ok"
                     /\ q.audio_path = ""
                     /\ HasQuestion(q.id)
                     /\ SameContent(q, questions[q.id])
                     /\ questions[q.id].audio_path = ""

C10_Witness ==
    \E p \in NewQuestionProcs :
        /\ procs[p].tts_failed /\ ReturnedOk(procs[p])
        /\ ~procs[p].llm_failed

\* the row of a returned submission holds what the caller was returned
AnswerRowHoldsResult(st) ==
    /\ HasResponse(st.response_id)
    /\ LET row == responses[st.response_id]
       IN /\ row.creator = st.inv
          /\ row.feedback_text = st.result.feedback
          /\ row.audio_base64 = st.result.audio
          /\ row.audio_path =
                "audios/feedback_" \o ToString(st.response_id) \o ".mp3"

\* C13: whenever a submission has returned successfully, the Response row
\* with the identifier captured at the save stage holds the returned feedback
\* text and encoded audio and the audio path; and the step that returns is
\* the one step that writes them, onto the placeholder, all three together
C13_ReturnedAnswerIsStored ==
    /\ [](\A p \in AnswerProcs :
             ReturnedOk(procs[p]) => AnswerRowHoldsResult(procs[p]))
    /\ [][\A p \in Procs :
             (procs[p].pc = "generate_audio" /\ ReturnedOk(procs'[p])) =>
                 LET id == procs[p].response_id
                 IN /\ PlaceholderCommitted(procs[p])
                    /\ AnswerRowHoldsResult(procs[p])'
                    /\ \A i \in 1..Len(responses) :
                          i # id => responses'[i] = responses[i]]_vars

C13_Witness ==
    \E p \in AnswerProcs :
        /\ ReturnedOk(procs[p])
        /\ procs[p].result.feedback # "" /\ procs[p].result.audio # ""
        /\ responses[procs[p].response_id].audio_base64 = procs[p].result.audio

----------------------------------------------------------------------------
(* Properties of the workflows together with the report (SpecWithReport) *)

\* C16: in every invocation each collaborator has been called at most once
\* (question LLM, feedback LLM and synthesizer by a creation or submission,
\* insight LLM by a report), and exactly once when its call failed
C16_NoCollaboratorRetried ==
    /\ \A p \in Procs :
          /\ procs[p].calls.question_llm <= 1
          /\ procs[p].calls.feedback_llm <= 1
          /\ procs[p].calls.tts <= 1
          /\ procs[p].llm_failed => procs[p].calls.question_llm = 1
          /\ procs[p].feedback_failed => procs[p].calls.feedback_llm = 1
          /\ procs[p].tts_failed => procs[p].calls.tts = 1
    /\ report.calls.insight_llm <= 1
    /\ report.calls.notification <= 1

\* a submission whose feedback call failed, and a report whose insight call
\* failed
C16_Witness ==
    /\ \E p \in AnswerProcs :
          procs[p].feedback_failed /\ procs[p].calls.feedback_llm = 1
    /\ report.status = "200"
    /\ report.calls.insight_llm = 1
    /\ report.body.pedagogical_insights \notin InsightTexts

----------------------------------------------------------------------------
(* Properties of repeated fetches (SpecRegistered) *)

\* the fetch stage of a submission has run
Fetched(st) ==
    st.op = "answer" /\ st.pc \notin {"idle", "fetch_question"} /\
    ~(Failed(st) /\ st.result.stage = "initialize_state")

\* C14 as stated: any two submissions that fetched the same question
\* identifier were handed the same text, options and correct label,
\* whatever happened between the two fetches
C14_FetchIsIdempotent ==
    \A p, q \in AnswerProcs :
        (Fetched(procs[p]) /\ Fetched(procs[q]) /\
         procs[p].question_id = procs[q].question_id) =>
            SameContent(procs[p].question_data, procs[q].question_data)

\* C14, amended: a submission that fetched an identifier whose Question row
\* was committed holds that row's text, options and correct label as the row
\* has them now (however much later), as does the payload a creation
\* returned; so two such fetches agree and committed content never changes
C14_StoredFetchIsIdempotent ==
    /\ \A p \in AnswerProcs :
          (Fetched(procs[p]) /\ ~procs[p].question_missing) =>
              /\ HasQuestion(procs[p].question_id)
              /\ SameContent(procs[p].question_data,
                             questions[procs[p].question_id])
    /\ \A p \in NewQuestionProcs :
          ReturnedOk(procs[p]) =>
              SameContent(procs[p].result.question_data,
                          questions[procs[p].result.question_data.id])
    /\ \A p, q \in AnswerProcs :
          (Fetched(procs[p]) /\ Fetched(procs[q]) /\
           ~procs[p].question_missing /\ ~procs[q].question_missing /\
           procs[p].question_id = procs[q].question_id) =>
              SameContent(procs[p].question_data, procs[q].question_data)

\* two submissions fetched the same committed question, the second after
\* the learner was registered again with another grade
C14_Witness ==
    \E p, q \in AnswerProcs :
        /\ p # q /\ Fetched(procs[p]) /\ Fetched(procs[q])
        /\ procs[p].question_id = procs[q].question_id
        /\ ~procs[p].question_missing /\ ~procs[q].question_missing
        /\ procs[p].ano # procs[q].ano

----------------------------------------------------------------------------
(* Properties of the report (SpecReport) *)

\* the report has been returned to the caller
Reported == report.status = "200"

\* the learner's rows, and those of them that are correct
History == ResponsesOf(report.email)
Correct(rows) == {i \in rows : responses[i].correct}

FullReport == Reported /\ History # {}

Abs(x) == IF x < 0 THEN -x ELSE x

\* a, in tenths, is 100 * n / d rounded to one decimal
IsPercentage(a, n, d) == 2 * Abs(a * d - 1000 * n) <= d

\* C17: the report of a learner without responses is the minimal one: the
\* learner's name and grade, total_responses = 0 and a message, no other key
\* (no summary, temporal analysis, daily patterns, insights, recommendations),
\* and neither the insight LLM nor the notification has been called
C17_EmptyHistoryMinimalReport ==
    (Reported /\ History = {}) =>
        /\ DOMAIN report.body =
              {"child_name", "child_grade", "total_responses", "message"}
        /\ report.body.total_responses = 0
        /\ report.body.message # ""
        /\ report.body.child_name = FirstChild(report.email).nome
        /\ report.body.child_grade = FirstChild(report.email).ano
        /\ report.calls.insight_llm = 0
        /\ report.calls.notification = 0

\* the learner has no response while the other learner has some
C17_Witness ==
    /\ Reported /\ History = {}
    /\ Len(responses) > 0
    /\ report.body.total_responses = 0

\* 100 * n / d rounded to one decimal, a tie to the even digit, in tenths
RoundedPercentage(n, d) ==
    LET q == (1000 * n) \div d
        twice_rest == 2 * ((1000 * n) % d)
    IN IF twice_rest < d THEN q
       ELSE IF twice_rest > d THEN q + 1
       ELSE IF q % 2 = 0 THEN q ELSE q + 1

\* C18: in the report of a non-empty history total_activities is the number
\* of the learner's rows, correct_answers the number of correct ones,
\* correct + incorrect = total, and accuracy_percentage is exactly
\* 100 * correct / total rounded to one decimal
C18_OverallAccuracy ==
    FullReport =>
        LET summary == report.body.performance_summary
        IN /\ summary.total_activities = Cardinality(History)
           /\ summary.correct_answers = Cardinality(Correct(History))
           /\ summary.correct_answers + summary.incorrect_answers =
                 summary.total_activities
           /\ summary.accuracy_percentage =
                 RoundedPercentage(Cardinality(Correct(History)),
                                   Cardinality(History))

\* C19: the recommendations are exactly one of the three lists, chosen by
\* the reported accuracy: excellent from 80.0, satisfactory from 60.0 to
\* below 80.0, needs-attention below 60.0; four correct of five is 80.0 and
\* gets the excellent list
C19_RecommendationTiers ==
    FullReport =>
        LET accuracy == report.body.performance_summary.accuracy_percentage
            recommendations == report.body.recommendations
        IN /\ accuracy >= 800 => recommendations = ExcellentTier
           /\ (600 <= accuracy /\ accuracy < 800) =>
                 recommendations = SatisfactoryTier
           /\ accuracy < 600 => recommendations = NeedsAttentionTier
           /\ ExcellentTier # SatisfactoryTier
           /\ SatisfactoryTier # NeedsAttentionTier
           /\ ExcellentTier # NeedsAttentionTier
           /\ (Cardinality(History) = 5 /\ Cardinality(Correct(History)) = 4) =>
                 (accuracy = 800 /\ recommendations = ExcellentTier)

C19_Witness ==
    /\ FullReport
    /\ Cardinality(History) = 5 /\ Cardinality(Correct(History)) = 4
    /\ report.body.recommendations = ExcellentTier

\* the learner's rows at most 14 days old at the time of the report
Recent == {i \in History : now - responses[i].timestamp <= 14}
Older == History \ Recent

\* C20: total_recent_activities counts the rows at most 14 days old, the
\* row exactly 14 days old included, total_older_activities all the others,
\* so the two add up to the total; recent_accuracy is the percentage of
\* correct rows among the recent ones, and 0 when there is none
C20_RecentOlderPartition ==
    FullReport =>
        LET temporal == report.body.temporal_analysis
            summary == report.body.performance_summary
        IN /\ temporal.total_recent_activities = Cardinality(Recent)
           /\ temporal.total_older_activities = Cardinality(Older)
           /\ temporal.total_recent_activities + temporal.total_older_activities
                 = summary.total_activities
           /\ Recent = {} => summary.recent_accuracy = 0
           /\ Recent # {} =>
                 IsPercentage(summary.recent_accuracy,
                              Cardinality(Correct(Recent)), Cardinality(Recent))

\* a row exactly 14 days old counted as recent next to an older one, with a
\* recent accuracy that differs from the overall one
C20_Witness ==
    /\ FullReport
    /\ \E i \in Recent : now - responses[i].timestamp = 14
    /\ Older # {}
    /\ report.body.performance_summary.recent_accuracy #
          report.body.performance_summary.accuracy_percentage

----------------------------------------------------------------------------
(* Properties of question creation over a failing store (SpecCreate) *)

PersistFailed(st) ==
    st.op = "new_question" /\ Failed(st) /\ st.result.stage = "persist_question"

\* C11: when the persist stage of a question creation raises (at flush or at
\* commit), the invocation ends in failure without a question payload and the
\* step leaves the Question table exactly as it was (the row is rolled back)
C11_PersistFailureRollsBack ==
    [][\A p \in Procs :
          (procs[p].pc = "persist_question" /\ Failed(procs'[p])) =>
              /\ questions' = questions
              /\ procs'[p].pc = "done"
              /\ procs'[p].result.status = "error"
              /\ procs'[p].result.question_data = EmptyQuestionData]_vars

\* a commit that raised after the row was flushed and the audio synthesized
C11_Witness ==
    \E p \in Procs :
        /\ PersistFailed(procs[p])
        /\ procs[p].calls.tts = 1 /\ ~procs[p].tts_failed
        /\ Len(questions) = 0

\* C12: whenever the question generator raised, the question returned for
\* grade g, for every g in 1..5, is the entry the fallback table holds for
\* grade g itself (so it is the same on every call), and that entry's correct
\* label is one of its own four options
C12_FallbackOfTheGrade ==
    \A p \in NewQuestionProcs :
        (ReturnedOk(procs[p]) /\ procs[p].llm_failed) =>
            LET q == procs[p].result.question_data
                g == procs[p].ano
            IN /\ g \in DOMAIN fallback_questions
               /\ q.question = fallback_questions[g].question
               /\ q.options = fallback_questions[g].options
               /\ q.answer = fallback_questions[g].answer
               /\ Len(q.options) = 4
               /\ q.answer \in Range(q.options)

\* C15: for every question a creation returned, posting its answer with its
\* id to /responder is accepted and evaluated correct, and posting the mock
\* game's wrong label is accepted and evaluated incorrect
C15_RoundTrip ==
    \A p \in NewQuestionProcs :
        ReturnedOk(procs[p]) =>
            LET q == procs[p].result.question_data
                email == procs[p].child_email
                right == answer_question(q.id, q.answer, email)
                wrong == answer_question(q.id, wrong_answer(q.answer), email)
            IN /\ right.status = "200" /\ right.correta
               /\ wrong.status = "200" /\ ~wrong.correta


(***************************************************************************)
(* Properties of the report's trend and weekday grouping (SpecReport)      *)
(***************************************************************************)

\* the improvement signal of the report: improvement_trend of the
\* performance data handed to the insight collaborator
Signal == report.insight_input.improvement_trend

Trend == report.body.temporal_analysis.performance_trend

\* C21: in a full report the trend is "improvement" exactly when the recent
\* accuracy is above the overall accuracy, "needs_attention" exactly when it
\* is below and "stable" exactly when they are equal; the improvement signal
\* is recent minus overall accuracy when the learner has older responses and
\* 0 otherwise, and its sign agrees with the trend.
C21_TrendAndSignal ==
    FullReport =>
        LET recent == report.body.performance_summary.recent_accuracy
            overall == report.body.performance_summary.accuracy_percentage
        IN /\ (Trend = "improvement") = (recent > overall)
           /\ (Trend = "needs_attention") = (recent < overall)
           /\ (Trend = "stable") = (recent = overall)
           /\ Signal = (IF Older # {} THEN recent - overall ELSE 0)
           /\ (Signal > 0) = (Trend = "improvement")
           /\ (Signal < 0) = (Trend = "needs_attention")
           /\ (Signal = 0) = (Trend = "stable")

\* a full report over recent and older responses whose trend is an improvement
C21_Witness ==
    /\ FullReport
    /\ Older # {}
    /\ Recent # {}
    /\ Trend = "improvement"
    /\ Signal > 0

\* the sum of f[x] over the x of keys
RECURSIVE SumOver(_, _)
SumOver(f, keys) ==
    IF keys = {} THEN 0
    ELSE LET x == CHOOSE y \in keys : TRUE IN f[x] + SumOver(f, keys \ {x})

Patterns == report.body.daily_patterns

\* the responses of the reported learner given on a weekday
OnDay(day) == {i \in History : strftime(responses[i].timestamp) = day}

\* C22: in the weekday grouping of a full report every response is counted
\* under exactly one weekday: the weekday totals sum to the overall total,
\* the weekday correct counts sum to the overall correct count, and on each
\* weekday correct <= total, the weekday accuracy being within 0..100.
C22_WeekdayGrouping ==
    FullReport =>
        LET daily == daily_performance(History)
            summary == report.body.performance_summary
        IN /\ DOMAIN Patterns = DOMAIN daily
           /\ \A i \in History :
                 Cardinality({day \in DOMAIN daily : i \in OnDay(day)}) = 1
           /\ \A day \in DOMAIN daily :
                 /\ daily[day].total = Cardinality(OnDay(day))
                 /\ daily[day].correct = Cardinality(Correct(OnDay(day)))
                 /\ Patterns[day].total = daily[day].total
                 /\ daily[day].correct <= daily[day].total
                 /\ Patterns[day].accuracy \in 0..1000
           /\ SumOver([day \in DOMAIN daily |-> daily[day].total],
                      DOMAIN daily) = summary.total_activities
           /\ SumOver([day \in DOMAIN daily |-> daily[day].correct],
                      DOMAIN daily) = summary.correct_answers

\* a full report over responses of two weekdays, right and wrong ones
C22_Witness ==
    /\ FullReport
    /\ Cardinality(DOMAIN Patterns) >= 2
    /\ \E day \in DOMAIN Patterns : Patterns[day].total >= 2
    /\ Correct(History) # {}
    /\ Correct(History) # History

\* C23: a full report gives an accuracy for each weekday, and a weekday on
\* which the learner has no response is reported with accuracy 0.
C23_EveryWeekdayReported ==
    FullReport =>
        \A k \in 1..Len(DayNames) :
            /\ DayNames[k] \in DOMAIN Patterns
            /\ OnDay(DayNames[k]) = {} => Patterns[DayNames[k]].accuracy = 0

(***************************************************************************)
(* Properties of the report's outcomes (SpecReport, SpecWithReport)        *)
(***************************************************************************)

\* C24: a failure of the notification at the end of report generation does
\* not fail the report: whenever the notification was attempted the
\* assembled report is returned with status 200.
C24_NotificationFailureAbsorbed ==
    report.calls.notification = 1 =>
        /\ report.status = "200"
        /\ "performance_summary" \in DOMAIN report.body

\* C25: a report requested for a contact identifier without a learner is
\* answered as not found, never with a report, and without the select of
\* the responses, statistics, the insight collaborator or the notification.
C25_MissingLearnerNotFound ==
    (report.status # "none" /\ ChildRows(report.email) = {}) =>
        /\ report.status = "404"
        /\ report.body = [detail |-> "Crianca nao encontrada"]
        /\ report.insight_input = [none |-> TRUE]
        /\ report.calls = [response_select |-> 0, insight_llm |-> 0,
                           notification |-> 0]

\* a not-found reply over a store that holds responses of other learners
C25_Witness ==
    /\ report.status = "404"
    /\ ChildRows(report.email) = {}
    /\ responses # <<>>

\* C26: report generation is read-only on the store: a step that answers a
\* report request, whatever its outcome, leaves every Child, Question and
\* Response row unchanged.
C26_ReportReadOnly ==
    [][report' # report => UNCHANGED <<children, questions, responses>>]_vars

\* a full report was answered over a store with a learner and a response
C26_Witness ==
    /\ report.status = "200"
    /\ report.calls.insight_llm = 1
    /\ ChildRows(report.email) # {}
    /\ ResponsesOf(report.email) # {}

(***************************************************************************)
(* Properties of concurrent invocations (Spec)                             *)
(***************************************************************************)

\* the question that the invocation st created is the row of its payload
OwnQuestion(st) ==
    LET q == st.result.question_data
    IN /\ q.id = st.question_id
       /\ HasQuestion(q.id)
       /\ questions[q.id].question = q.question
       /\ questions[q.id].options = q.options
       /\ questions[q.id].answer = q.answer
       /\ questions[q.id].audio_path = q.audio_path
       /\ questions[q.id].ano_ideal = st.ano
       /\ st.llm_failed =>
             /\ q.question = _get_fallback_question(st.ano, 0).question
             /\ q.answer = _get_fallback_question(st.ano, 0).answer

\* the reply to the submission st follows from its own answer, from the
\* question it fetched and from its own feedback, audio and Response row
OwnAnswer(st) ==
    LET expected == IF st.question_missing
                    THEN _get_fallback_question(st.ano, 0).answer
                    ELSE questions[st.question_id].answer
    IN /\ st.user_response = Strip(Upper(st.raw_answer))
       /\ st.result.correta = (st.user_response = Upper(expected))
       /\ st.result.feedback = st.feedback_text
       /\ st.result.audio = st.audio_data.base64
       /\ HasResponse(st.response_id)
       /\ responses[st.response_id].creator = st.inv
       /\ responses[st.response_id].child_email = st.child_email
       /\ responses[st.response_id].question_id = st.question_id
       /\ responses[st.response_id].selected = st.user_response
       /\ responses[st.response_id].correct = st.result.correta

IsolatedResults ==
    /\ \A p \in NewQuestionProcs :
          ReturnedOk(procs[p]) => OwnQuestion(procs[p])
    /\ \A p \in AnswerProcs : ReturnedOk(procs[p]) => OwnAnswer(procs[p])
    /\ \A p, q \in NewQuestionProcs :
          (p # q /\ ReturnedOk(procs[p]) /\ ReturnedOk(procs[q]))
              => procs[p].result.question_data.id
                     # procs[q].result.question_data.id
    /\ \A p, q \in AnswerProcs :
          (p # q /\ ReturnedOk(procs[p]) /\ ReturnedOk(procs[q]))
              => procs[p].response_id # procs[q].response_id

\* C27: with invocations running concurrently, a step changes the AgentState
\* of one invocation at most, and the result an invocation returns follows
\* from its own inputs and store reads: a created question is the row of the
\* returned identifier, an evaluation compares the invocation's own answer
\* with the question it fetched, feedback and audio are its own, and no two
\* invocations return the same question or write the same Response row.
C27_InvocationsIsolated ==
    /\ []IsolatedResults
    /\ [][\A p, q \in Procs :
             (procs'[p] # procs[p] /\ procs'[q] # procs[q]) => p = q]_vars

\* two invocations were in flight together and both returned
C27_Witness ==
    /\ \A p \in Procs : ReturnedOk(procs[p])
    /\ \E p, q \in Procs : p # q /\ procs[p].op = procs[q].op

(***************************************************************************)
(* Properties of concurrent registrations (SpecRegister)                   *)
(***************************************************************************)

\* C28: the contact identifier is unique among learners: after any
\* interleaving of registrations, two concurrent first registrations with
\* the same contact identifier included, the store holds one Child row per
\* contact identifier at most.
C28_ContactIdentifierUnique ==
    \A i, j \in 1..Len(children) :
        children[i].email_responsavel = children[j].email_responsavel => i = j

(***************************************************************************)
(* The replies of POST /nova_questao and POST /responder to an invocation  *)
(* that raised: what the caller gets of a stage failure                    *)
(***************************************************************************)

\* HTTPException(status_code, detail); the detail is the sequence of the
\* texts it is formatted from
HTTPException(status_code, detail) ==
    [status_code |-> status_code, detail |-> detail]

\* the reply to the finished invocation st: 404 of the learner check, 500
\* with f"Erro interno: {str(e)}" for an exception of the orchestrator, else
\* the result with status 200 (201 for a created question)
EndpointReply(st) ==
    IF Failed(st)
    THEN IF st.result.error = "ChildNotFound"
         THEN HTTPException("404",
                  <<"Crianca nao encontrada. Faca o registro primeiro.">>)
         ELSE HTTPException("500", <<"Erro interno: ", st.result.error>>)
    ELSE [status_code |-> IF st.op = "new_question" THEN "201" ELSE "200",
          detail |-> <<>>]

(***************************************************************************)
(* Properties of stage failures and of the order of the stages (Spec)      *)
(***************************************************************************)

\* an invocation that ended by the exception of one of its stages
StageFailed(st) ==
    st.pc = "done" /\ Failed(st) /\ st.result.stage # "initialize_state"

\* C29: when a stage of question creation or answer submission fails, the
\* error reported to the caller wraps the exception of the stage and
\* carries the name of the failing stage.
C29_StageFailureClassified ==
    \A p \in Procs :
        StageFailed(procs[p]) =>
            /\ EndpointReply(procs[p]).status_code = "500"
            /\ procs[p].result.error \in Range(EndpointReply(procs[p]).detail)
            /\ procs[p].result.stage \in Range(EndpointReply(procs[p]).detail)

\* the stage that follows pc in an invocation whose stage did not raise
NextStage ==
    [generate_question |-> "persist_question",
     persist_question |-> "done",
     fetch_question |-> "evaluate_answer",
     evaluate_answer |-> "save_response",
     save_response |-> "generate_feedback",
     generate_feedback |-> "generate_audio",
     generate_audio |-> "done"]

\* a step of slot p starts an invocation (the learner is resolved) or takes
\* a running invocation from its stage to the next one, to the end when the
\* stage raised
InOrder(p) ==
    IF procs[p].pc \in {"idle", "done"}
    THEN /\ procs'[p].inv # procs[p].inv
         /\ procs'[p].pc =
               IF Failed(procs'[p]) THEN "done"
               ELSE IF procs'[p].op = "new_question" THEN "generate_question"
               ELSE "fetch_question"
    ELSE /\ procs'[p].inv = procs[p].inv
         /\ procs'[p].pc =
               IF Failed(procs'[p]) THEN "done" ELSE NextStage[procs[p].pc]

\* what the stages after the current one do has not happened: no row before
\* the save, no feedback call before the feedback stage, no audio and no
\* update of the row before the audio stage, and none of those after a
\* stage that raised
NothingAhead(st) ==
    LET reached(stages) == st.pc \in stages /\ ~Failed(st)
        failed_at(stages) == Failed(st) /\ st.result.stage \in stages
        before_save ==
            \/ reached({"fetch_question", "evaluate_answer", "save_response"})
            \/ failed_at({"initialize_state"})
        before_feedback == before_save \/ reached({"generate_feedback"})
        before_audio ==
            \/ before_feedback
            \/ reached({"generate_audio"})
            \/ failed_at({"generate_feedback"})
        before_update == before_audio \/ failed_at({"generate_audio"})
    IN /\ Failed(st) => st.pc = "done"
       /\ before_save => ~st.saved /\ CreatedBy(st.inv) = {}
       /\ before_feedback => st.calls.feedback_llm = 0 /\ st.feedback_text = ""
       /\ before_audio => st.calls.tts = 0 /\ st.audio_data.base64 = ""
       /\ before_update =>
             \A i \in 1..Len(responses) : st.inv \notin responses[i].writers
       /\ ~before_save => st.saved /\ CreatedBy(st.inv) = {st.response_id}

\* C30: within an invocation the stages run in the fixed order, each after
\* the previous one; when a stage raises no later stage of the invocation
\* runs and the invocation ends reporting the failure.
C30_StagesInOrder ==
    /\ [](\A p \in AnswerProcs : NothingAhead(procs[p]))
    /\ [][\A p \in Procs : procs'[p] # procs[p] => InOrder(p)]_vars

\* a submission stopped at the feedback stage after its row was saved, and
\* another one ran all its stages
C30_Witness ==
    \E p, q \in AnswerProcs :
        /\ procs[p].pc = "done"
        /\ Failed(procs[p])
        /\ procs[p].result.stage = "generate_feedback"
        /\ procs[p].saved
        /\ ReturnedOk(procs[q])

----------------------------------------------------------------------------
(* Question creation: identifier, synthesis and commit *)

\* the invocation's INSERT is flushed and its transaction is open
Pending(st) == st.pc \in {"persist_audio", "persist_commit"}

\* the audio references a question with this identifier ends with
DecidedAudio(id) == {"", "audios/questao_" \o ToString(id) \o ".mp3"}

\* rows that other invocations read never change and never disappear
CommittedQuestionsKept ==
    /\ Len(questions') >= Len(questions)
    /\ \A i \in 1..Len(questions) : questions'[i] = questions[i]

QuestionAllocatedAndDecided ==
    /\ \A p \in Procs :
          LET st == procs[p]
          IN /\ Pending(st) =>
                   /\ st.db_question.id = Len(questions) + 1
                   /\ st.db_question.id # st.question_data.id
                   /\ \A i \in 1..Len(questions) :
                          questions[i].id # st.db_question.id
             /\ st.pc = "persist_audio" => st.db_question.audio_path = SemAudio
             /\ st.pc = "persist_commit" =>
                   st.db_question.audio_path \in DecidedAudio(st.db_question.id)
             /\ (st.op = "answer" /\ st.pc \notin {"idle", "fetch_question"}
                   /\ ~Failed(st) /\ ~st.question_missing) =>
                   /\ st.question_id \in 1..Len(questions)
                   /\ questions[st.question_id].audio_path
                         \in DecidedAudio(st.question_id)
             /\ (st.op = "new_question" /\ ReturnedOk(st)) =>
                   LET id == st.result.question_data.id
                   IN /\ id \in 1..Len(questions)
                      /\ id < InitialQuestionCounter
                      /\ questions[id].id = id
                      /\ questions[id].question = st.result.question_data.question
                      /\ questions[id].audio_path =
                            st.result.question_data.audio_path
    /\ \A i \in 1..Len(questions) :
          /\ questions[i].id = i
          /\ questions[i].audio_path \in DecidedAudio(i)

\* C31: in question creation the identifier is the store's and is allocated
\* before the synthesis, which names the audio after it; the row reaches the
\* rows other invocations read only by the commit, with its audio reference
\* decided, and stays as committed; a reader finds committed rows only; the
\* identifier returned is the row's, not the generator's counter
C31_AudioDecidedBeforeCommit ==
    []QuestionAllocatedAndDecided /\ [][CommittedQuestionsKept]_vars

\* a creation has its row flushed with the default audio path while another
\* invocation has looked that identifier up and did not find it
C31_Witness ==
    \E p, q \in Procs :
        /\ procs[p].pc = "persist_audio"
        /\ procs[p].db_question.audio_path = SemAudio
        /\ procs[q].op = "answer"
        /\ procs[q].pc = "evaluate_answer"
        /\ procs[q].question_id = procs[p].db_question.id
        /\ procs[q].question_missing

----------------------------------------------------------------------------
(* The report when the insight LLM fails *)

\* the narrative that stands in for the insight text
FallbackNarrative(name, accuracy, grade) ==
    "Analise pedagogica: " \o name \o " demonstra " \o FormatTenths(accuracy)
    \o "% de acerto nas atividades, indicando desenvolvimento adequado para o "
    \o ToString(grade) \o "o ano."

WithNarrative(body, text) == [body EXCEPT !.pedagogical_insights = text]

----------------------------------------------------------------------------
(* The two forms of a Response row *)

Placeholder(row) ==
    /\ row.feedback_text = ""
    /\ row.audio_path = None
    /\ row.audio_base64 = None

Narrated(row) ==
    /\ row.feedback_text \in FeedbackTexts
    /\ row.audio_path # None /\ row.audio_path # ""
    /\ row.audio_base64 # None

\* a step leaves a row as it is or takes it from the placeholder to the
\* narrated form, and keeps what the submission selected and its flag
ResponseRowsKept ==
    /\ Len(responses') >= Len(responses)
    /\ \A i \in 1..Len(responses) :
          /\ responses'[i].correct = responses[i].correct
          /\ responses'[i].selected = responses[i].selected
          /\ responses'[i].question_id = responses[i].question_id
          /\ responses'[i].child_email = responses[i].child_email
          /\ responses'[i] # responses[i] =>
                Placeholder(responses[i]) /\ Narrated(responses'[i])

----------------------------------------------------------------------------
(* Audio artifacts *)

QuestionArtifact(id) == "audios/questao_" \o ToString(id) \o ".mp3"
FeedbackArtifact(id) == "audios/feedback_" \o ToString(id) \o ".mp3"

\* the invocation is at the call of the synthesizer
Synthesizing(st) == st.pc \in {"persist_audio", "generate_audio"}

\* the row the invocation synthesizes for: its kind and its identifier
ArtifactRow(st) ==
    IF st.op = "new_question" THEN <<"questao", st.db_question.id>>
    ELSE <<"feedback", st.response_id>>

\* the invocation synthesizes for a row that it created itself and that no
\* other invocation created: a flushed Question under an identifier that no
\* committed row has, or the Response row it inserted
OwnArtifactRow(st) ==
    IF st.op = "new_question"
    THEN /\ st.db_question.id > 0
         /\ \A i \in 1..Len(questions) : questions[i].id < st.db_question.id
    ELSE /\ HasResponse(st.response_id)
         /\ responses[st.response_id].id = st.response_id
         /\ CreatedBy(st.inv) = {st.response_id}

----------------------------------------------------------------------------
(* The feedback text and the audio stage *)

\* the submission has a feedback text from the feedback LLM
FeedbackGenerated(st) == st.feedback_text # ""

\* C35: the Response row of a submission whose feedback text was generated
\* holds that text exactly when the submission has returned, that is after
\* the synthesis and the encoding succeeded; while the audio stage is
\* pending, and after it failed, the row is the placeholder with the empty
\* feedback text, and a submission whose audio stage failed returns no
\* feedback text
C35_FeedbackStoredAfterAudio ==
    \A p \in AnswerProcs :
        LET st == procs[p]
        IN FeedbackGenerated(st) =>
              /\ HasResponse(st.response_id)
              /\ responses[st.response_id].feedback_text \in {"", st.feedback_text}
              /\ responses[st.response_id].feedback_text = st.feedback_text
                    <=> ReturnedOk(st)
              /\ ReturnedOk(st) =>
                    /\ ~st.tts_failed
                    /\ st.audio_data.base64 # ""
                    /\ responses[st.response_id].audio_base64
                          = st.audio_data.base64
              /\ ~ReturnedOk(st) =>
                    /\ PlaceholderCommitted(st)
                    /\ st.result.feedback = ""
              /\ st.tts_failed =>
                    /\ Failed(st)
                    /\ st.result.status = "error"

\* the feedback LLM answered, then the audio file could not be produced
C35_Witness ==
    \E p \in AnswerProcs :
        /\ FeedbackGenerated(procs[p])
        /\ procs[p].tts_failed /\ procs[p].pc = "done"
        /\ responses[procs[p].response_id].feedback_text = ""
        /\ procs[p].result.feedback = ""

----------------------------------------------------------------------------
(* Submissions against an identifier that no Question row has *)

\* the Response rows whose question identifier no Question row has
Dangling == {i \in 1..Len(responses) : ~HasQuestion(responses[i].question_id)}

\* the row of a submission that found no question: it names the identifier
\* submitted, and its flag compares the answer with the fallback's label
DanglingRowStored(st) ==
    /\ HasResponse(st.response_id)
    /\ LET row == responses[st.response_id]
           fallback == _get_fallback_question(st.ano, 0)
       IN /\ row.question_id = st.question_id
          /\ row.child_email = st.child_email
          /\ row.selected = st.user_response
          /\ row.correct = (st.user_response = Upper(fallback.answer))
          /\ st.ano = FirstChild(st.child_email).ano

\* the fetch stage takes the fallback exactly when no row has the identifier
FetchStep(p) ==
    (procs[p].pc = "fetch_question" /\ procs'[p].pc = "evaluate_answer") =>
        procs'[p].question_missing = ~HasQuestion(procs[p].question_id)

\* a step that serves a report leaves the rows alone and counts every row
\* of the learner, whether its question is stored or not
ReportStep ==
    (nInv' # nInv /\ procs' = procs /\ report'.status = "200") =>
        /\ responses' = responses
        /\ LET rows == RowsOf(report'.email)
               right == {i \in rows : responses[i].correct}
           IN IF rows = {}
              THEN /\ "total_responses" \in DOMAIN report'.body
                   /\ report'.body.total_responses = 0
              ELSE LET summary == report'.body.performance_summary
                   IN /\ "performance_summary" \in DOMAIN report'.body
                      /\ summary.total_activities = Cardinality(rows)
                      /\ summary.correct_answers = Cardinality(right)
                      /\ summary.incorrect_answers
                            = Cardinality(rows) - Cardinality(right)

\* C36: a submission that names an identifier no Question row has is
\* evaluated against the fallback question of the grade stored for the
\* learner, and the row it inserts names that identifier and holds that
\* result; a report counts every row of the learner, the rows without
\* Question included
C36_DanglingAnswerStoredAndCounted ==
    /\ [](\A p \in AnswerProcs :
             (procs[p].question_missing /\ procs[p].saved) =>
                 DanglingRowStored(procs[p]))
    /\ [][ReportStep /\ \A p \in Procs : FetchStep(p)]_vars

\* the report of a learner with a row for the stored question and a correct
\* row for an identifier that no Question row has: not every Response row
\* references an existing Question
C36_Witness ==
    /\ report.status = "200"
    /\ "performance_summary" \in DOMAIN report.body
    /\ report.body.performance_summary.total_activities = 2
    /\ report.body.performance_summary.correct_answers = 1
    /\ \E i, j \in RowsOf(report.email) :
          /\ i \in Dangling /\ responses[i].correct
          /\ j \notin Dangling

----------------------------------------------------------------------------
(* The saved flag of a submission *)

\* the row with the identifier the submission captured holds its learner,
\* its normalized answer and the given flag
SavedRow(st, correct) ==
    /\ HasResponse(st.response_id)
    /\ LET row == responses[st.response_id]
       IN /\ row.id = st.response_id
          /\ row.creator = st.inv
          /\ row.child_email = st.child_email
          /\ row.question_id = st.question_id
          /\ row.selected = Strip(Upper(st.raw_answer))
          /\ row.correct = correct

\* C37: every result that process_answer returns has saved = true; and a
\* submission whose saved flag is set, returned or not, has its row in the
\* store under the identifier it captured, with the learner's email, the
\* normalized answer and the correctness flag it evaluated, which is the
\* flag it returns
C37_SavedMeansCommitted ==
    \A p \in AnswerProcs :
        LET st == procs[p]
        IN /\ ReturnedOk(st) =>
                 /\ st.result.saved
                 /\ st.saved
                 /\ SavedRow(st, st.result.correta)
           /\ st.saved => SavedRow(st, st.evaluation_result.correct)
           /\ st.saved <=> st.response_id # 0
           /\ (st.pc \in {"generate_feedback", "generate_audio"}) => st.saved

\* a returned submission with a wrong answer that carried whitespace, while
\* another submission has saved its row and not returned yet
C37_Witness ==
    \E p, q \in AnswerProcs :
        /\ ReturnedOk(procs[p]) /\ procs[p].result.saved
        /\ ~procs[p].result.correta
        /\ procs[p].raw_answer # procs[p].user_response
        /\ procs[q].saved /\ procs[q].pc = "generate_audio"

=============================================================================
